---- MODULE Spec2Model ----
(***************************************************************************)
(* A model of the rapid-qoi codec: Qoi::encode / Qoi::encode_range         *)
(* (src/src/encode.rs) and Qoi::decode_header / Qoi::decode /              *)
(* Qoi::decode_skip_header / Qoi::decode_range (src/src/decode.rs).        *)
(*                                                                         *)
(* encode.rs and decode.rs import the crate root (`use super::*`) for the  *)
(* Pixel trait, the Colors enum, the Var deltas and the QOI_OP_* tags.     *)
(* The crate root that defines them is not among the sources:              *)
(* src/src/lib.rs is the pre-freeze codec (RUN_8/RUN_16/DIFF_8/DIFF_16/    *)
(* DIFF_24/COLOR, 4 bytes of padding) and declares none of them.  Those    *)
(* definitions are modelled from sections 3, 4.1, 4.2 and 4.3 of the       *)
(* specification and are marked so where they are defined.                 *)
(***************************************************************************)
EXTENDS Integers, Sequences, FiniteSets, TLC

(***************************************************************************)
(* Bounds of the model.                                                    *)
(***************************************************************************)
\* largest width and height of an image with pixels
MaxWidth == 3
MaxHeight == 2
\* largest number of pixels of an image
MaxPixels == 3
\* images of at most this many pixels (half the largest image, rounded up) are
\* encoded into output buffers of every length, larger ones into buffers of
\* the documented limit and beyond
MaxShortPixels == (MaxPixels + 1) \div 2
\* bytes of an output buffer beyond the size the codec asks for
OutSlack == 2
\* largest number of chunks of a hand-made (not encoder-made) body
MaxChunks == 2
\* largest number of bytes cut off the end of a hand-made stream
MaxCut == 4
\* width of the one-row images whose runs are longer than a RUN chunk can hold
LongWidth == 63
\* pixels of the images of two calls that run interleaved
ConcPixels == 2

\* a dimension whose four bytes differ, for images without pixels
BigDim == 1 * 16777216 + 2 * 65536 + 3 * 256 + 4

\* content of caller-provided buffers before the codec writes to them
Junk == 170

(***************************************************************************)
(* Byte arithmetic.                                                        *)
(***************************************************************************)
Byte == 0..255

Pow2(i) == CASE i = 0 -> 1 [] i = 1 -> 2 [] i = 2 -> 4 [] i = 3 -> 8
             [] i = 4 -> 16 [] i = 5 -> 32 [] i = 6 -> 64 [] i = 7 -> 128

Bit(a, i) == (a \div Pow2(i)) % 2

BitOfOr(a, b, i) == IF Bit(a, i) + Bit(b, i) > 0 THEN Pow2(i) ELSE 0

BitOfAnd(a, b, i) == IF Bit(a, i) + Bit(b, i) = 2 THEN Pow2(i) ELSE 0

\* a | b on u8
Or8(a, b) == BitOfOr(a, b, 0) + BitOfOr(a, b, 1) + BitOfOr(a, b, 2) + BitOfOr(a, b, 3)
             + BitOfOr(a, b, 4) + BitOfOr(a, b, 5) + BitOfOr(a, b, 6) + BitOfOr(a, b, 7)

\* a & b on u8
And8(a, b) == BitOfAnd(a, b, 0) + BitOfAnd(a, b, 1) + BitOfAnd(a, b, 2) + BitOfAnd(a, b, 3)
              + BitOfAnd(a, b, 4) + BitOfAnd(a, b, 5) + BitOfAnd(a, b, 6) + BitOfAnd(a, b, 7)

\* (a << k) as u8
Shl8(a, k) == (a * Pow2(k)) % 256

\* a >> k on u8
Shr8(a, k) == a \div Pow2(k)

\* u8::wrapping_add, u8::wrapping_sub
WrapAdd(a, b) == (a + b) % 256

WrapSub(a, b) == (a + 256 - b) % 256

\* u32::to_be_bytes, u32::from_be_bytes
ToBeBytes(x) == << (x \div 16777216) % 256, (x \div 65536) % 256, (x \div 256) % 256, x % 256 >>

FromBeBytes(s) == s[1] * 16777216 + s[2] * 65536 + s[3] * 256 + s[4]

\* buf with bs copied to offsets off .. off + Len(bs) - 1 (0-based)
WriteAt(buf, off, bs) ==
    [i \in 1..Len(buf) |-> IF i > off /\ i <= off + Len(bs) THEN bs[i - off] ELSE buf[i]]

\* a sequence of n copies of v
Fill(n, v) == [i \in 1..n |-> v]

\* s[from..] (0-based from)
Skip(s, from) == SubSeq(s, from + 1, Len(s))

\* s[..n]
Take(s, n) == SubSeq(s, 1, n)

(***************************************************************************)
(* Constants of the format.  The operator tags and QOI_PADDING are those   *)
(* of sections 3, 4.3 and 6 of the specification (six operators, an end    *)
(* marker of 8 bytes); QOI_MAGIC and QOI_HEADER_SIZE are as in lib.rs.     *)
(***************************************************************************)
QOI_OP_INDEX == 0
QOI_OP_DIFF == 64
QOI_OP_LUMA == 128
QOI_OP_RUN == 192
QOI_OP_RGB == 254
QOI_OP_RGBA == 255

\* u32::from_be_bytes(*b"qoif")
QOI_MAGIC == FromBeBytes(<<113, 111, 105, 102>>)
QOI_HEADER_SIZE == 14
QOI_PADDING == 8

(***************************************************************************)
(* Colors and pixels ([u8; 3] and [u8; 4]).  Channels and ColorSpaceByte   *)
(* are the match on self.colors in encode(); has_alpha and the Pixel and   *)
(* Var operations follow sections 3, 4.2 and 4.3 of the specification.     *)
(***************************************************************************)
ColorsValues == {"Rgb", "Rgba", "Srgb", "SrgbLinA"}

\* the channel count encode() derives from self.colors
Channels(colors) == IF colors \in {"Rgba", "SrgbLinA"} THEN 4 ELSE 3

\* ColorSpaceByte with the two color spaces exchanged
ColorSpaceByte_Swapped(colors) == IF colors \in {"Rgb", "Rgba"} THEN 0 ELSE 1

\* the color-space byte encode() writes for self.colors
ColorSpaceByte(colors) == IF colors \in {"Rgb", "Rgba"} THEN 1 ELSE 0

HasAlpha(colors) == Channels(colors) = 4

\* Pixel::new
NewPixel(N) == Fill(N, 0)

\* Pixel::new_opaque
NewOpaque(N) == IF N = 4 THEN <<0, 0, 0, 255>> ELSE <<0, 0, 0>>

\* Pixel::a: a pixel without alpha is opaque
PxA(px) == IF Len(px) = 4 THEN px[4] ELSE 255

\* Pixel::rgba, Pixel::rgb
PxRgba(px) == <<px[1], px[2], px[3], PxA(px)>>

PxRgb(px) == <<px[1], px[2], px[3]>>

\* Pixel::hash: (r*3 + g*5 + b*7 + a*11) % 64 in wrapping u8 arithmetic
PxHash(px) ==
    WrapAdd(WrapAdd(WrapAdd((px[1] * 3) % 256, (px[2] * 5) % 256), (px[3] * 7) % 256),
            (PxA(px) * 11) % 256) % 64

\* Pixel::var: the wrap-around deltas to the previous pixel
PxVar(px, prev) ==
    [r |-> WrapSub(px[1], prev[1]), g |-> WrapSub(px[2], prev[2]), b |-> WrapSub(px[3], prev[3])]

\* Var::diff: the DIFF byte, or <<>> when a delta is outside -2..1
VarDiff(v) ==
    LET r == WrapAdd(v.r, 2)
        g == WrapAdd(v.g, 2)
        b == WrapAdd(v.b, 2)
    IN  IF And8(Or8(Or8(r, g), b), 252) = 0
        THEN << Or8(Or8(Or8(QOI_OP_DIFF, Shl8(r, 4)), Shl8(g, 2)), b) >>
        ELSE << >>

\* Var::luma: the two LUMA bytes, or <<>> when the deltas do not fit
VarLuma(v) ==
    LET g == WrapAdd(v.g, 32)
        r == WrapAdd(WrapSub(v.r, v.g), 8)
        b == WrapAdd(WrapSub(v.b, v.g), 8)
    IN  IF And8(g, 192) = 0 /\ And8(Or8(r, b), 240) = 0
        THEN << Or8(QOI_OP_LUMA, g), Or8(Shl8(r, 4), b) >>
        ELSE << >>

\* Pixel::add_rgb, Pixel::set_rgb, Pixel::set_rgba
PxAddRgb(px, vr, vg, vb) ==
    [i \in 1..Len(px) |-> CASE i = 1 -> WrapAdd(px[1], vr)
                            [] i = 2 -> WrapAdd(px[2], vg)
                            [] i = 3 -> WrapAdd(px[3], vb)
                            [] OTHER -> px[i]]

PxSetRgb(px, r, g, b) ==
    [i \in 1..Len(px) |-> CASE i = 1 -> r [] i = 2 -> g [] i = 3 -> b [] OTHER -> px[i]]

PxSetRgba(px, r, g, b, a) ==
    [i \in 1..Len(px) |-> CASE i = 1 -> r [] i = 2 -> g [] i = 3 -> b [] OTHER -> a]

(***************************************************************************)
(* The descriptor and the sizes derived from it.                           *)
(***************************************************************************)
\* the pixel byte count encode() and decoded_size() compute
\* px_len without the channel count
PxLen_NoChannels(q) == q.width * q.height

PxLen(q) == q.width * q.height * Channels(q.colors)

\* decoded_size without the channel count
decoded_size_NoChannels(q) == q.width * q.height

decoded_size(q) == q.width * q.height * Channels(q.colors)

\* encoded_size_limit without the tag byte of each pixel
encoded_size_limit_NoTag(q) ==
    q.width * q.height * ((IF HasAlpha(q.colors) THEN 1 ELSE 0) + 3)
        + QOI_HEADER_SIZE + QOI_PADDING

encoded_size_limit(q) ==
    q.width * q.height * ((IF HasAlpha(q.colors) THEN 1 ELSE 0) + 4)
        + QOI_HEADER_SIZE + QOI_PADDING

\* the i-th pixel (1-based) of a flat buffer of N-byte pixels: bytemuck::cast_slice
PixelAt(buf, N, i) == SubSeq(buf, (i - 1) * N + 1, i * N)

(***************************************************************************)
(* The encoder.                                                            *)
(***************************************************************************)
\* EncodeHeader with the height written before the width
EncodeHeader_HeightFirst(q) ==
    ToBeBytes(QOI_MAGIC) \o ToBeBytes(q.height) \o ToBeBytes(q.width)
        \o << Channels(q.colors), ColorSpaceByte(q.colors) >>

\* the 14 header bytes written by encode()
EncodeHeader(q) ==
    ToBeBytes(QOI_MAGIC) \o ToBeBytes(q.width) \o ToBeBytes(q.height)
        \o << Channels(q.colors), ColorSpaceByte(q.colors) >>

\* RunEndByte holding the pixels of the run, not the pixels less one
RunEndByte_CountsPixel(r) == Or8(QOI_OP_RUN, (r + 1) % 256)

\* the byte written when a pixel equal to the previous one ends a run:
\* the 62nd pixel of the run or the last pixel of the image
RunEndByte(r) == Or8(QOI_OP_RUN, r % 256)

\* RunEnds ending a run one pixel early
RunEnds_Early(r, last) == r = 60 \/ last

\* RunEnds without the test for the last pixel
RunEnds_NotAtLast(r, last) == r = 61

\* RunEnds letting the run grow by one more pixel
RunEnds_Late(r, last) == r = 62 \/ last

\* a run of equal pixels ends at this pixel
RunEnds(r, last) == r = 61 \/ last

\* RunFlush taking the RUN fallback for every previous pixel of hash 0x35
RunFlush_FallbackOnHash(r, prev, idx) ==
    CASE r = 0 -> << >>
      [] r = 1 -> IF PxHash(prev) = 53
                  THEN << QOI_OP_RUN >>
                  ELSE << Or8(QOI_OP_INDEX, PxHash(prev)) >>
      [] OTHER -> << Or8(QOI_OP_RUN, (r - 1) % 256) >>

\* RunFlush writing the run's length, not the length less one
RunFlush_LengthAsIs(r, prev, idx) ==
    CASE r = 0 -> << >>
      [] r = 1 -> IF PxHash(prev) = 53 /\ idx[53] = <<0, 0, 0, 0>>
                  THEN << QOI_OP_RUN >>
                  ELSE << Or8(QOI_OP_INDEX, PxHash(prev)) >>
      [] OTHER -> << Or8(QOI_OP_RUN, r % 256) >>

\* RunFlush without the RUN fallback for the initial previous pixel
RunFlush_NoFallback(r, prev, idx) ==
    CASE r = 0 -> << >>
      [] r = 1 -> << Or8(QOI_OP_INDEX, PxHash(prev)) >>
      [] OTHER -> << Or8(QOI_OP_RUN, (r - 1) % 256) >>

\* the bytes written for the pending run when a different pixel arrives
RunFlush(r, prev, idx) ==
    CASE r = 0 -> << >>
      [] r = 1 -> IF PxHash(prev) = 53 /\ idx[53] = <<0, 0, 0, 0>>
                  THEN << QOI_OP_RUN >>
                  ELSE << Or8(QOI_OP_INDEX, PxHash(prev)) >>
      [] OTHER -> << Or8(QOI_OP_RUN, (r - 1) % 256) >>

\* the pixel is found in the table
IndexHit(idx, p) == idx[PxHash(p)] = PxRgba(p)

\* EncodeChunk with the alpha byte also written after an RGB tag
EncodeChunk_RgbWithAlpha(idx, prev, p, N) ==
    IF idx[PxHash(p)] = PxRgba(p)
    THEN << Or8(QOI_OP_INDEX, PxHash(p)) >>
    ELSE IF N = 4 /\ PxA(prev) # PxA(p)
         THEN << QOI_OP_RGBA >> \o PxRgba(p)
         ELSE LET v == PxVar(p, prev)
              IN  IF VarDiff(v) # << >> THEN VarDiff(v)
                  ELSE IF VarLuma(v) # << >> THEN VarLuma(v)
                  ELSE << QOI_OP_RGB >> \o PxRgba(p)

\* EncodeChunk without the test of the alpha channel
EncodeChunk_AlphaIgnored(idx, prev, p, N) ==
    IF idx[PxHash(p)] = PxRgba(p)
    THEN << Or8(QOI_OP_INDEX, PxHash(p)) >>
    ELSE LET v == PxVar(p, prev)
         IN  IF VarDiff(v) # << >> THEN VarDiff(v)
             ELSE IF VarLuma(v) # << >> THEN VarLuma(v)
             ELSE << QOI_OP_RGB >> \o PxRgb(p)

\* EncodeChunk trying LUMA before DIFF
EncodeChunk_LumaFirst(idx, prev, p, N) ==
    IF idx[PxHash(p)] = PxRgba(p)
    THEN << Or8(QOI_OP_INDEX, PxHash(p)) >>
    ELSE IF N = 4 /\ PxA(prev) # PxA(p)
         THEN << QOI_OP_RGBA >> \o PxRgba(p)
         ELSE LET v == PxVar(p, prev)
              IN  IF VarLuma(v) # << >> THEN VarLuma(v)
                  ELSE IF VarDiff(v) # << >> THEN VarDiff(v)
                  ELSE << QOI_OP_RGB >> \o PxRgb(p)

\* the chunk written for a pixel that differs from the previous pixel
EncodeChunk(idx, prev, p, N) ==
    IF IndexHit(idx, p)
    THEN << Or8(QOI_OP_INDEX, PxHash(p)) >>
    ELSE IF N = 4 /\ PxA(prev) # PxA(p)
         THEN << QOI_OP_RGBA >> \o PxRgba(p)
         ELSE LET v == PxVar(p, prev)
              IN  IF VarDiff(v) # << >> THEN VarDiff(v)
                  ELSE IF VarLuma(v) # << >> THEN VarLuma(v)
                  ELSE << QOI_OP_RGB >> \o PxRgb(p)

\* EncodeIndex that never writes the table
EncodeIndex_NoWrite(idx, p) == idx

\* the table after that chunk
EncodeIndex(idx, p) ==
    IF IndexHit(idx, p) THEN idx ELSE [idx EXCEPT ![PxHash(p)] = PxRgba(p)]

\* RoomForPixel asking for room for the longest chunk and the end marker
RoomForPixel_Strict(restLen) == restLen > 12

\* the guard of encode_range before each pixel
RoomForPixel(restLen) == restLen > 7

\* EndMarker of the 4 padding bytes of the format before its freeze
EndMarker_Legacy == <<0, 0, 0, 1>>

\* EndMarker as padding of zero bytes only
EndMarker_Zeros == Fill(QOI_PADDING, 0)

\* the end marker written by encode()
EndMarker == Fill(QOI_PADDING - 1, 0) \o <<1>>

VARIABLES
    pc,          \* which call is running, or waiting to be made
    mode,        \* "roundtrip": encode, then decode the result; "stream": decode bytes
    qoi,         \* the descriptor encode() is called on
    pixels,      \* encode's pixel buffer
    output,      \* encode's output buffer
    index,       \* encode_range: the recent-colors table
    px_prev,     \* encode_range: the previous pixel
    run,         \* encode_range: the pending run
    consumed,    \* encode_range: pixels taken from the input
    written,     \* encode_range: output.len() - rest.len()
    enc_result,  \* what encode returned
    enc_size,    \* the size in Ok(size)
    bytes,       \* decode's input
    dec_output,  \* decode's output buffer
    dec_index,   \* decode_range: the recent-colors table
    px,          \* decode_range: the current pixel
    produced,    \* decode_range: pixels of the output taken so far
    read,        \* decode_range: bytes.len() - rest.len()
    dec_result,  \* what decode returned
    dec_qoi      \* the descriptor decode_header parsed

encVars == << qoi, pixels, output, index, px_prev, run, consumed, written, enc_result, enc_size >>

decVars == << bytes, dec_output, dec_index, px, produced, read, dec_result, dec_qoi >>

vars == << pc, mode, encVars, decVars >>

NoQoi == [width |-> 0, height |-> 0, colors |-> "None"]

\* the channel count of the running encode_range
EncN == Channels(qoi.colors)

\* the pixels of the slice encode() hands to encode_range: cast_slice of
\* pixels[..px_len]
EncPixelCount(q) == PxLen(q) \div Channels(q.colors)

\* the recent-colors table encode() creates for a call
EncFreshIndex == [i \in 0..63 |-> <<0, 0, 0, 0>>]

\* The locals of one call of encode, as a record: the output buffer, the
\* table, the previous pixel, the pending run, the pixels taken, the bytes of
\* the body written, and what the call returned ("Running" until it returns).

\* EncStart with the table, the previous pixel and the run kept from the call
\* made before, as if they were statics
EncStart_StaticState(q, pix, s) ==
    IF Len(s.output) <= QOI_HEADER_SIZE
    THEN [s EXCEPT !.result = "OutputIsTooSmall"]
    ELSE IF Len(pix) < PxLen(q)
    THEN [s EXCEPT !.output = WriteAt(s.output, 0, EncodeHeader(q)),
                   !.result = "NotEnoughPixelData"]
    ELSE [s EXCEPT !.output = WriteAt(s.output, 0, EncodeHeader(q)),
                   !.index = s.index,
                   !.px_prev = IF Len(s.px_prev) = Channels(q.colors)
                               THEN s.px_prev ELSE NewOpaque(Channels(q.colors)),
                   !.consumed = 0,
                   !.written = 0,
                   !.result = IF PxLen(q) % Channels(q.colors) = 0
                              THEN "Running" ELSE "Panic"]

\* Qoi::encode up to the call of encode_range
EncStart(q, pix, s) ==
    IF Len(s.output) <= QOI_HEADER_SIZE
    THEN [s EXCEPT !.result = "OutputIsTooSmall"]
    ELSE IF Len(pix) < PxLen(q)
    THEN [s EXCEPT !.output = WriteAt(s.output, 0, EncodeHeader(q)),
                   !.result = "NotEnoughPixelData"]
    ELSE [s EXCEPT !.output = WriteAt(s.output, 0, EncodeHeader(q)),
                   !.index = EncFreshIndex,
                   !.px_prev = NewOpaque(Channels(q.colors)),
                   !.run = 0,
                   !.consumed = 0,
                   !.written = 0,
                   !.result = IF PxLen(q) % Channels(q.colors) = 0
                              THEN "Running" ELSE "Panic"]

\* one iteration of the loop of encode_range on a pixel
EncStep(q, pix, s) ==
    LET N == Channels(q.colors)
        p == PixelAt(pix, N, s.consumed + 1)
        last == s.consumed + 1 = EncPixelCount(q)
        restLen == Len(s.output) - QOI_HEADER_SIZE - s.written
        flush == RunFlush(s.run, s.px_prev, s.index)
        chunk == EncodeChunk(s.index, s.px_prev, p, N)
        t == [s EXCEPT !.consumed = s.consumed + 1]
    IN  IF ~RoomForPixel(restLen)
        THEN [t EXCEPT !.result = "OutputIsTooSmall"]
        ELSE IF p = s.px_prev
        THEN IF RunEnds(s.run, last)
             THEN [t EXCEPT !.output = WriteAt(s.output, QOI_HEADER_SIZE + s.written,
                                               << RunEndByte(s.run) >>),
                            !.written = s.written + 1,
                            !.run = 0]
             ELSE [t EXCEPT !.run = s.run + 1]
        ELSE IF restLen - Len(flush) < 5
        THEN \* unreachable!()
             [t EXCEPT !.output = WriteAt(s.output, QOI_HEADER_SIZE + s.written, flush),
                       !.written = s.written + Len(flush),
                       !.run = 0,
                       !.result = "Panic"]
        ELSE [t EXCEPT !.output = WriteAt(s.output, QOI_HEADER_SIZE + s.written,
                                          flush \o chunk),
                       !.written = s.written + Len(flush) + Len(chunk),
                       !.run = 0,
                       !.index = EncodeIndex(s.index, p),
                       !.px_prev = p]

\* the end of encode_range and the end marker of encode
EncFinish(s) ==
    IF Len(s.output) < s.written + QOI_PADDING + QOI_HEADER_SIZE
    THEN [s EXCEPT !.result = "OutputIsTooSmall"]
    ELSE [s EXCEPT !.output = WriteAt(s.output, QOI_HEADER_SIZE + s.written, EndMarker),
                   !.result = "Ok",
                   !.size = s.written + QOI_PADDING + QOI_HEADER_SIZE]

\* Qoi::encode(q, pix, out) as a function of its arguments: the locals when the
\* call returns
RECURSIVE EncLoop(_, _, _)
EncLoop(q, pix, s) ==
    IF s.result # "Running" THEN s
    ELSE IF s.consumed < EncPixelCount(q) THEN EncLoop(q, pix, EncStep(q, pix, s))
    ELSE EncFinish(s)

encode(q, pix, out) ==
    EncLoop(q, pix, EncStart(q, pix,
        [output |-> out, index |-> EncFreshIndex, px_prev |-> << >>, run |-> 0,
         consumed |-> 0, written |-> 0, result |-> "None", size |-> 0]))

\* the locals of the running encode
EncState ==
    [output |-> output, index |-> index, px_prev |-> px_prev, run |-> run,
     consumed |-> consumed, written |-> written, result |-> enc_result,
     size |-> enc_size]

EncUpdate(s) ==
    /\ output' = s.output
    /\ index' = s.index
    /\ px_prev' = s.px_prev
    /\ run' = s.run
    /\ consumed' = s.consumed
    /\ written' = s.written
    /\ enc_result' = s.result
    /\ enc_size' = s.size

Encode ==
    /\ pc = "encode"
    /\ LET s == EncStart(qoi, pixels, EncState)
       IN  /\ EncUpdate(s)
           /\ pc' = IF s.result = "Running" THEN "encode_range" ELSE "encoded"
    /\ UNCHANGED << mode, qoi, pixels, decVars >>

EncodePixel ==
    /\ pc = "encode_range"
    /\ consumed < EncPixelCount(qoi)
    /\ LET s == EncStep(qoi, pixels, EncState)
       IN  /\ EncUpdate(s)
           /\ pc' = IF s.result = "Running" THEN "encode_range" ELSE "encoded"
    /\ UNCHANGED << mode, qoi, pixels, decVars >>

EncodeEnd ==
    /\ pc = "encode_range"
    /\ consumed = EncPixelCount(qoi)
    /\ EncUpdate(EncFinish(EncState))
    /\ pc' = "encoded"
    /\ UNCHANGED << mode, qoi, pixels, decVars >>

(***************************************************************************)
(* The decoder.                                                            *)
(***************************************************************************)
\* HeaderColors with the channels arm written for color space 0 only
HeaderColors_ZeroOnly(channels, colors) ==
    CASE channels = 3 /\ colors = 0 -> "Srgb"
      [] channels = 4 /\ colors = 0 -> "SrgbLinA"
      [] channels = 3 /\ colors = 1 -> "Rgb"
      [] channels = 4 /\ colors = 1 -> "Rgba"
      [] channels \notin {3, 4} /\ colors = 0 -> "InvalidChannelsValue"
      [] OTHER -> "InvalidColorSpaceValue"

\* HeaderColors with the channels byte judged before the color-space byte
HeaderColors_ChannelsFirst(channels, colors) ==
    CASE channels = 3 /\ colors = 0 -> "Srgb"
      [] channels = 4 /\ colors = 0 -> "SrgbLinA"
      [] channels = 3 /\ colors = 1 -> "Rgb"
      [] channels = 4 /\ colors = 1 -> "Rgba"
      [] channels \notin {3, 4} -> "InvalidChannelsValue"
      [] OTHER -> "InvalidColorSpaceValue"

\* the match on (channels, colors) of decode_header: the Colors value or the error
HeaderColors(channels, colors) ==
    CASE channels = 3 /\ colors = 0 -> "Srgb"
      [] channels = 4 /\ colors = 0 -> "SrgbLinA"
      [] channels = 3 /\ colors = 1 -> "Rgb"
      [] channels = 4 /\ colors = 1 -> "Rgba"
      [] channels \notin {3, 4} /\ colors \in {0, 1} -> "InvalidChannelsValue"
      [] OTHER -> "InvalidColorSpaceValue"

\* decode_header with the magic compared after the channels and color-space bytes
decode_header_MagicLast(bs) ==
    IF Len(bs) < QOI_HEADER_SIZE
    THEN [result |-> "NotEnoughData", qoi |-> NoQoi]
    ELSE LET w == FromBeBytes(SubSeq(bs, 5, 8))
             h == FromBeBytes(SubSeq(bs, 9, 12))
             c == HeaderColors(bs[13], bs[14])
         IN  IF c \notin ColorsValues
             THEN [result |-> c, qoi |-> NoQoi]
             ELSE IF FromBeBytes(SubSeq(bs, 1, 4)) # QOI_MAGIC
             THEN [result |-> "InvalidMagic", qoi |-> NoQoi]
             ELSE [result |-> "Ok", qoi |-> [width |-> w, height |-> h, colors |-> c]]

\* Qoi::decode_header: the error, or "Ok" and the descriptor
decode_header(bs) ==
    IF Len(bs) < QOI_HEADER_SIZE
    THEN [result |-> "NotEnoughData", qoi |-> NoQoi]
    ELSE IF FromBeBytes(SubSeq(bs, 1, 4)) # QOI_MAGIC
    THEN [result |-> "InvalidMagic", qoi |-> NoQoi]
    ELSE LET w == FromBeBytes(SubSeq(bs, 5, 8))
             h == FromBeBytes(SubSeq(bs, 9, 12))
             c == HeaderColors(bs[13], bs[14])
         IN  IF c \in ColorsValues
             THEN [result |-> "Ok", qoi |-> [width |-> w, height |-> h, colors |-> c]]
             ELSE [result |-> c, qoi |-> NoQoi]

\* the channel count of the running decode_range
DecN == Channels(dec_qoi.colors)

\* the pixels of the output decode_range has to fill
DecPixels == dec_qoi.width * dec_qoi.height

\* ChunkArm with the RUN arm written as 0b11000000..=0b11111111
ChunkArm_RunTakesTags(b1, avail, N) ==
    CASE avail >= 1 /\ b1 <= 63 -> "INDEX"
      [] avail >= 1 /\ b1 >= 64 /\ b1 <= 127 -> "DIFF"
      [] avail >= 2 /\ b1 >= 128 /\ b1 <= 191 -> "LUMA"
      [] avail >= 4 /\ b1 = 254 -> "RGB"
      [] avail >= 5 /\ b1 = 255 /\ N = 3 -> "RGB5"
      [] avail >= 5 /\ b1 = 255 -> "RGBA"
      [] avail >= 1 /\ b1 >= 192 /\ b1 <= 255 -> "RUN"
      [] OTHER -> "NONE"

\* which arm of the match on `rest` takes the chunk that starts with b1 when
\* avail bytes are left
ChunkArm(b1, avail, N) ==
    CASE avail >= 1 /\ b1 <= 63 -> "INDEX"
      [] avail >= 1 /\ b1 >= 64 /\ b1 <= 127 -> "DIFF"
      [] avail >= 2 /\ b1 >= 128 /\ b1 <= 191 -> "LUMA"
      [] avail >= 4 /\ b1 = 254 -> "RGB"
      [] avail >= 5 /\ b1 = 255 /\ N = 3 -> "RGB5"
      [] avail >= 5 /\ b1 = 255 -> "RGBA"
      [] avail >= 1 /\ b1 >= 192 /\ b1 <= 253 -> "RUN"
      [] OTHER -> "NONE"

\* ArmLen without the skipped alpha byte of a 0xFF chunk in a 3-channel image
ArmLen_AlphaNotSkipped(arm) ==
    CASE arm = "LUMA" -> 2 [] arm = "RGB" -> 4 [] arm = "RGB5" -> 4 [] arm = "RGBA" -> 5
      [] arm = "NONE" -> 0 [] OTHER -> 1

\* the bytes an arm takes from the input
ArmLen(arm) ==
    CASE arm = "LUMA" -> 2 [] arm = "RGB" -> 4 [] arm = "RGB5" -> 5 [] arm = "RGBA" -> 5
      [] arm = "NONE" -> 0 [] OTHER -> 1

\* DecodeDiff adding the two-bit fields without their bias of 2
DecodeDiff_NoBias(p, b1) ==
    PxAddRgb(p, And8(Shr8(b1, 4), 3), And8(Shr8(b1, 2), 3), And8(b1, 3))

\* the pixel after a DIFF chunk
DecodeDiff(p, b1) ==
    PxAddRgb(p, WrapSub(And8(Shr8(b1, 4), 3), 2),
                WrapSub(And8(Shr8(b1, 2), 3), 2),
                WrapSub(And8(b1, 3), 2))

\* DecodeLuma adding the red and blue fields without the green delta
DecodeLuma_NoGreen(p, b1, b2) ==
    LET vg == WrapSub(And8(b1, 63), 32)
        vr == WrapSub(And8(Shr8(b2, 4), 15), 8)
        vb == WrapSub(And8(b2, 15), 8)
    IN  PxAddRgb(p, vr, vg, vb)

\* the pixel after a LUMA chunk
DecodeLuma(p, b1, b2) ==
    LET vg == WrapSub(And8(b1, 63), 32)
        vr == WrapAdd(WrapSub(And8(Shr8(b2, 4), 15), 8), vg)
        vb == WrapAdd(WrapSub(And8(b2, 15), 8), vg)
    IN  PxAddRgb(p, vr, vg, vb)

\* the current pixel after the chunk c (the bytes the arm takes)
DecodePx(arm, c, p, idx) ==
    CASE arm = "INDEX" -> idx[c[1]]
      [] arm = "DIFF" -> DecodeDiff(p, c[1])
      [] arm = "LUMA" -> DecodeLuma(p, c[1], c[2])
      [] arm = "RGB" -> PxSetRgb(p, c[2], c[3], c[4])
      [] arm = "RGB5" -> PxSetRgb(p, c[2], c[3], c[4])
      [] arm = "RGBA" -> PxSetRgba(p, c[2], c[3], c[4], c[5])
      [] OTHER -> p

\* UpdatesIndex without the table update after the RGB arm
UpdatesIndex_NotAfterRgb(arm) == arm \in {"DIFF", "LUMA", "RGB5", "RGBA"}

\* UpdatesIndex with the table update after the delta arms only
UpdatesIndex_DeltasOnly(arm) == arm \in {"DIFF", "LUMA"}

\* the arms that fall through to the table update after the match
UpdatesIndex(arm) == arm \in {"DIFF", "LUMA", "RGB", "RGB5", "RGBA"}

\* the repeat count of a RUN chunk beyond the pixel the chunk itself writes
RunRepeat(b1) == And8(b1, 63)

\* PutPixels filling one pixel more than asked
PutPixels_OneMore(out, N, from, count, p) ==
    [i \in 1..Len(out) |->
        IF i > from * N /\ i <= (from + count + 1) * N
        THEN p[((i - 1) % N) + 1]
        ELSE out[i]]

\* the pixel p stored to `count` pixels of the output after the first `from`:
\* *out = px; head.fill(px)
PutPixels(out, N, from, count, p) ==
    [i \in 1..Len(out) |->
        IF i > from * N /\ i <= (from + count) * N
        THEN p[((i - 1) % N) + 1]
        ELSE out[i]]

\* the recent-colors table decode_skip_header creates for a call
DecFreshIndex(N) == [i \in 0..63 |-> NewPixel(N)]

\* The locals of one call of decode, as a record: the output buffer, the table,
\* the current pixel, the output pixels taken, the bytes of the body read, the
\* descriptor, and what the call returned ("Running" until it returns).

\* Qoi::decode up to the call of decode_range
DecStart(bs, s) ==
    LET hdr == decode_header(bs)
    IN  IF hdr.result # "Ok"
        THEN [s EXCEPT !.result = hdr.result]
        ELSE IF hdr.qoi.width = 0 \/ hdr.qoi.height = 0
        THEN [s EXCEPT !.qoi = hdr.qoi, !.result = "Ok"]
        ELSE IF Len(s.output) < decoded_size(hdr.qoi)
        THEN [s EXCEPT !.qoi = hdr.qoi, !.result = "OutputIsTooSmall"]
        ELSE [s EXCEPT !.qoi = hdr.qoi,
                       !.index = DecFreshIndex(Channels(hdr.qoi.colors)),
                       !.px = NewOpaque(Channels(hdr.qoi.colors)),
                       !.produced = 0,
                       !.read = 0,
                       !.result = "Running"]

\* DecStep taking a byte of the input and no pixel of the output
DecStep_TakesNoPixel(bs, s) == [s EXCEPT !.read = s.read + 1]

\* one iteration of the loop of decode_range on an output pixel
DecStep(bs, s) ==
    LET N == Channels(s.qoi.colors)
        rest == Skip(bs, QOI_HEADER_SIZE + s.read)
        arm == ChunkArm(IF rest = << >> THEN 0 ELSE rest[1], Len(rest), N)
        c == Take(rest, ArmLen(arm))
        p == DecodePx(arm, c, s.px, s.index)
        left == s.qoi.width * s.qoi.height - (s.produced + 1)
    IN  CASE arm = "NONE" ->
                [s EXCEPT !.produced = s.produced + 1, !.result = "NotEnoughData"]
          [] arm = "RUN" ->
                IF RunRepeat(c[1]) > left
                THEN \* split_at_mut(run): mid > len
                     [s EXCEPT !.output = WriteAt(s.output, s.produced * N, s.px),
                               !.produced = s.produced + 1,
                               !.result = "Panic"]
                ELSE [s EXCEPT !.output = PutPixels(s.output, N, s.produced,
                                                    1 + RunRepeat(c[1]), s.px),
                               !.produced = s.produced + 1 + RunRepeat(c[1]),
                               !.read = s.read + 1,
                               !.result = IF RunRepeat(c[1]) = left
                                          THEN "Ok" ELSE "Running"]
          [] OTHER ->
                [s EXCEPT !.px = p,
                          !.output = WriteAt(s.output, s.produced * N, p),
                          !.index = IF UpdatesIndex(arm)
                                    THEN [s.index EXCEPT ![PxHash(p)] = p]
                                    ELSE s.index,
                          !.produced = s.produced + 1,
                          !.read = s.read + ArmLen(arm)]

\* the end of decode_range: no output pixel is left
DecFinish(s) == [s EXCEPT !.result = "Ok"]

\* Qoi::decode(bs, out) as a function of its arguments: the locals when the
\* call returns
RECURSIVE DecLoop(_, _)
DecLoop(bs, s) ==
    IF s.result # "Running" THEN s
    ELSE IF s.produced < s.qoi.width * s.qoi.height THEN DecLoop(bs, DecStep(bs, s))
    ELSE DecFinish(s)

decode(bs, out) ==
    DecLoop(bs, DecStart(bs,
        [output |-> out, index |-> DecFreshIndex(4), px |-> << >>, produced |-> 0,
         read |-> 0, result |-> "None", qoi |-> NoQoi]))

\* the locals of the running decode
DecState ==
    [output |-> dec_output, index |-> dec_index, px |-> px, produced |-> produced,
     read |-> read, result |-> dec_result, qoi |-> dec_qoi]

DecUpdate(s) ==
    /\ dec_output' = s.output
    /\ dec_index' = s.index
    /\ px' = s.px
    /\ produced' = s.produced
    /\ read' = s.read
    /\ dec_result' = s.result
    /\ dec_qoi' = s.qoi

Decode ==
    /\ pc = "decode"
    /\ LET s == DecStart(bytes, DecState)
       IN  /\ DecUpdate(s)
           /\ pc' = IF s.result = "Running" THEN "decode_range" ELSE "decoded"
    /\ UNCHANGED << mode, encVars, bytes >>

DecodeChunk ==
    /\ pc = "decode_range"
    /\ produced < DecPixels
    /\ LET s == DecStep(bytes, DecState)
       IN  /\ DecUpdate(s)
           /\ pc' = IF s.result = "Running" THEN "decode_range" ELSE "decoded"
    /\ UNCHANGED << mode, encVars, bytes >>

DecodeEnd ==
    /\ pc = "decode_range"
    /\ produced = DecPixels
    /\ DecUpdate(DecFinish(DecState))
    /\ pc' = "decoded"
    /\ UNCHANGED << mode, encVars, bytes >>

\* the caller hands the bytes encode returned to decode
DecodeEncoded ==
    /\ pc = "encoded"
    /\ mode = "roundtrip"
    /\ enc_result = "Ok"
    /\ bytes' = Take(output, enc_size)
    /\ dec_output' = Fill(decoded_size(qoi) + OutSlack, Junk)
    /\ pc' = "decode"
    /\ UNCHANGED << mode, encVars, dec_index, px, produced, read, dec_result, dec_qoi >>

(***************************************************************************)
(* Inputs.                                                                 *)
(***************************************************************************)
\* Pixels that reach every operator from the initial previous pixel and from
\* each other: equal to the initial pixel, the all-zero table entry, DIFF with
\* wrap-around (dr = 1, dg = -1, db = -2), LUMA (dg = 10), two pixels whose
\* hash is the slot of another pixel (53 and 0), a changed alpha.
Palette4 ==
    { <<0, 0, 0, 255>>, <<0, 0, 0, 0>>, <<1, 255, 254, 255>>, <<5, 10, 8, 255>>,
      <<64, 0, 0, 255>>, <<64, 0, 0, 128>> }

Palette3 ==
    { <<0, 0, 0>>, <<1, 255, 254>>, <<5, 10, 8>>, <<64, 0, 0>>, <<10, 20, 30>> }

Palette(N) == IF N = 4 THEN Palette4 ELSE Palette3

\* width and height: images of at most MaxPixels pixels, those of more than
\* MaxShortPixels pixels as one row, and images without pixels whose other
\* dimension is large
Dims ==
    { d \in (0..MaxWidth) \X (0..MaxHeight) :
        d[1] * d[2] <= MaxPixels /\ (d[2] <= 1 \/ d[1] * d[2] <= MaxShortPixels) }
        \cup { <<BigDim, 0>>, <<0, BigDim>> }

Descriptors ==
    { [width |-> d[1], height |-> d[2], colors |-> c] : d \in Dims, c \in ColorsValues }

\* the flat pixel buffers of n pixels of N channels
PixelBuffers(n, N) ==
    { [i \in 1..(n * N) |-> f[((i - 1) \div N) + 1][((i - 1) % N) + 1]] :
        f \in [1..n -> Palette(N)] }

\* output buffer lengths for encode: the documented limit and more, and for
\* small images every length below it
OutputLens(q) ==
    { encoded_size_limit(q), encoded_size_limit(q) + OutSlack }
        \cup (IF q.width * q.height <= MaxShortPixels
              THEN 0..(encoded_size_limit(q) + OutSlack)
              ELSE { })

\* chunks of hand-made bodies: INDEX 0, INDEX 53, DIFF (1,1,1), DIFF (-2,-2,-2),
\* LUMA, RGB, RGBA, RUN 1, RUN 2, RUN 62
Chunks ==
    { <<0>>, <<53>>, <<127>>, <<64>>, <<170, 55>>, <<254, 10, 20, 30>>,
      <<255, 64, 0, 0, 128>>, <<192>>, <<193>>, <<253>> }

RECURSIVE Bodies(_)
Bodies(k) ==
    IF k = 0 THEN { << >> }
    ELSE Bodies(k - 1) \cup { b \o c : b \in Bodies(k - 1), c \in Chunks }

\* header bytes as a producer, faulty or not, may write them
HeaderBytes(magic, w, h, channels, colors) ==
    magic \o ToBeBytes(w) \o ToBeBytes(h) \o << channels, colors >>

Magics == { <<113, 111, 105, 102>>, <<113, 111, 105, 0>>, <<81, 111, 105, 102>> }

\* streams that probe the header: every magic, channels and color-space byte,
\* cut to every length up to the header and one chunk
HeaderStreams ==
    { Take(HeaderBytes(m, d[1], d[2], ch, cs) \o <<192>>, n) :
        m \in Magics, d \in { <<1, 1>>, <<BigDim, 0>> },
        ch \in { 0, 3, 4, 5, 255 }, cs \in { 0, 1, 2, 255 },
        n \in { 0, 4, 13, 14, 15 } }

\* streams that probe the body: a valid header, some chunks, then the end
\* marker or a cut
BodyStreams(d, ch) ==
    LET hdr == HeaderBytes(<<113, 111, 105, 102>>, d[1], d[2], ch, 0)
    IN  { hdr \o b \o EndMarker : b \in Bodies(MaxChunks) }
          \cup UNION { { hdr \o Take(b, Len(b) - c) : c \in { k \in 0..MaxCut : k <= Len(b) } } :
                          b \in Bodies(MaxChunks) }

\* output buffer lengths for decode: as needed, more, one less
DecOutputLens(n) == { n, n + OutSlack } \cup { m \in { n - 1 } : m >= 0 }

EncIdle ==
    /\ qoi = NoQoi
    /\ pixels = << >>
    /\ output = << >>
    /\ index = [i \in 0..63 |-> <<0, 0, 0, 0>>]
    /\ px_prev = << >>
    /\ run = 0
    /\ consumed = 0
    /\ written = 0
    /\ enc_result = "None"
    /\ enc_size = 0

DecIdle ==
    /\ dec_index = [i \in 0..63 |-> << >>]
    /\ px = << >>
    /\ produced = 0
    /\ read = 0
    /\ dec_result = "None"
    /\ dec_qoi = NoQoi

\* an encode call: any descriptor; a pixel buffer that is exact, with an
\* output buffer of a length around the limit, or one byte short or one byte
\* long, with an output buffer of the limit or of the header's length
InitRoundTrip ==
    /\ mode = "roundtrip"
    /\ pc = "encode"
    /\ qoi \in Descriptors
    /\ \E buf \in PixelBuffers(qoi.width * qoi.height, Channels(qoi.colors)) :
          \/ pixels = buf /\ \E n \in OutputLens(qoi) : output = Fill(n, Junk)
          \/ /\ pixels \in { buf \o <<7>> } \cup { Take(buf, Len(buf) - k) : k \in 1..(IF buf = << >> THEN 0 ELSE 1) }
             /\ output \in { Fill(encoded_size_limit(qoi), Junk), Fill(QOI_HEADER_SIZE, Junk) }
    /\ index = [i \in 0..63 |-> <<0, 0, 0, 0>>]
    /\ px_prev = << >>
    /\ run = 0
    /\ consumed = 0
    /\ written = 0
    /\ enc_result = "None"
    /\ enc_size = 0
    /\ bytes = << >>
    /\ dec_output = << >>
    /\ DecIdle

\* a decode call on bytes no encode call produced
InitStream ==
    /\ mode = "stream"
    /\ pc = "decode"
    /\ EncIdle
    /\ \/ /\ bytes \in HeaderStreams
          /\ dec_output \in { Fill(n, Junk) : n \in { 0, 4 } }
       \/ \E d \in { e \in Dims : e[1] * e[2] > 0 }, ch \in { 3, 4 } :
             /\ bytes \in BodyStreams(d, ch)
             /\ dec_output \in { Fill(n, Junk) : n \in DecOutputLens(d[1] * d[2] * ch) }
    /\ DecIdle

Init == InitRoundTrip

Next ==
    \/ Encode
    \/ EncodePixel
    \/ EncodeEnd
    \/ DecodeEncoded
    \/ Decode
    \/ DecodeChunk
    \/ DecodeEnd

\* encode calls, each followed by decode of what it returned
Spec == Init /\ [][Next]_vars

NextStream ==
    \/ Decode
    \/ DecodeChunk
    \/ DecodeEnd

\* decode calls on bytes of any producer
StreamSpec == InitStream /\ [][NextStream]_vars

\* the calls of Spec and of StreamSpec
InitLoops == InitRoundTrip \/ InitStream

\* the position of the program: where it is and how far each loop has come
LoopVars == << pc, consumed, produced >>

\* a call is in progress, or the caller holds the bytes to hand to decode
CallRuns ==
    \/ pc \in {"encode", "encode_range", "decode", "decode_range"}
    \/ pc = "encoded" /\ mode = "roundtrip" /\ enc_result = "Ok"

\* the counts a loop can have reached
MaxCount == MaxPixels + LongWidth

\* the program moves on: it is in a call and its position changes
Proceed ==
    /\ CallRuns
    /\ pc' \in {"encode", "encode_range", "encoded", "decode", "decode_range", "decoded"}
    /\ consumed' \in 0..MaxCount
    /\ produced' \in 0..MaxCount

\* the calls of Spec and of StreamSpec, each running on: the code is
\* sequential, so while a call is in progress its next step is taken. Every
\* step of Next from such a state changes the position, and no other step
\* does, so the condition is weak fairness of Next.
LoopSpec == InitLoops /\ [][Next]_vars /\ WF_LoopVars(Proceed)

\* the two pixels of the long images: the initial previous pixel and another
LongPalette(N) ==
    IF N = 4 THEN { <<0, 0, 0, 255>>, <<5, 10, 8, 255>> }
    ELSE { <<0, 0, 0>>, <<5, 10, 8>> }

\* the buffer of i pixels a followed by n - i pixels b
TwoRuns(n, N, i, a, b) ==
    [k \in 1..(n * N) |->
        IF (k - 1) \div N < i THEN a[((k - 1) % N) + 1] ELSE b[((k - 1) % N) + 1]]

\* an encode call on one row of LongWidth pixels made of two runs, into a
\* buffer of encoded_size_limit() bytes
InitLongRun ==
    /\ mode = "roundtrip"
    /\ pc = "encode"
    /\ qoi \in { [width |-> LongWidth, height |-> 1, colors |-> c] : c \in {"Rgb", "Rgba"} }
    /\ \E i \in 0..LongWidth, a \in LongPalette(Channels(qoi.colors)),
          b \in LongPalette(Channels(qoi.colors)) :
          pixels = TwoRuns(LongWidth, Channels(qoi.colors), i, a, b)
    /\ output = Fill(encoded_size_limit(qoi), Junk)
    /\ index = [i \in 0..63 |-> <<0, 0, 0, 0>>]
    /\ px_prev = << >>
    /\ run = 0
    /\ consumed = 0
    /\ written = 0
    /\ enc_result = "None"
    /\ enc_size = 0
    /\ bytes = << >>
    /\ dec_output = << >>
    /\ DecIdle

\* encode calls on images with runs of more than 62 pixels, each followed by
\* decode of what it returned
RunSpec == InitLongRun /\ [][Next]_vars

(***************************************************************************)
(* Two calls in progress at once: an encode call on the encoder's locals   *)
(* and a decode call on the decoder's, each on its own buffers and each    *)
(* stepped on its own; a call that has returned may be followed by another *)
(* call of the same function on other arguments.                           *)
(***************************************************************************)
ConcDescriptors ==
    { [width |-> ConcPixels, height |-> 1, colors |-> c] : c \in {"Rgb", "Rgba"} }

ConcImages(q) ==
    { TwoRuns(ConcPixels, Channels(q.colors), i, a, b) :
        i \in 0..ConcPixels, a \in LongPalette(Channels(q.colors)),
        b \in LongPalette(Channels(q.colors)) }

\* the bytes encode returns for the image: the output cut to the size returned
StreamOf(q, pix) ==
    LET e == encode(q, pix, Fill(encoded_size_limit(q), Junk))
    IN  Take(e.output, e.size)

\* the streams of the images, and one that ends after its first chunk
ConcStreams ==
    UNION { { StreamOf(q, pix) : pix \in ConcImages(q) } : q \in ConcDescriptors }
        \cup { Take(StreamOf(q, pix), QOI_HEADER_SIZE + 2) :
                  q \in { d \in ConcDescriptors : d.colors = "Rgb" },
                  pix \in { TwoRuns(ConcPixels, 3, 0, <<5, 10, 8>>, <<5, 10, 8>>) } }

InitCalls ==
    /\ mode = "calls"
    /\ pc = "concurrent"
    /\ qoi \in ConcDescriptors
    /\ pixels \in ConcImages(qoi)
    /\ output = Fill(encoded_size_limit(qoi), Junk)
    /\ index = [i \in 0..63 |-> <<0, 0, 0, 0>>]
    /\ px_prev = << >>
    /\ run = 0
    /\ consumed = 0
    /\ written = 0
    /\ enc_result = "None"
    /\ enc_size = 0
    /\ bytes \in ConcStreams
    /\ dec_output = Fill(ConcPixels * 4 + OutSlack, Junk)
    /\ DecIdle

CallEncode ==
    /\ pc = "concurrent"
    /\ enc_result = "None"
    /\ EncUpdate(EncStart(qoi, pixels, EncState))
    /\ UNCHANGED << pc, mode, qoi, pixels, decVars >>

CallEncodePixel ==
    /\ pc = "concurrent"
    /\ enc_result = "Running"
    /\ consumed < EncPixelCount(qoi)
    /\ EncUpdate(EncStep(qoi, pixels, EncState))
    /\ UNCHANGED << pc, mode, qoi, pixels, decVars >>

CallEncodeEnd ==
    /\ pc = "concurrent"
    /\ enc_result = "Running"
    /\ consumed = EncPixelCount(qoi)
    /\ EncUpdate(EncFinish(EncState))
    /\ UNCHANGED << pc, mode, qoi, pixels, decVars >>

CallDecode ==
    /\ pc = "concurrent"
    /\ dec_result = "None"
    /\ DecUpdate(DecStart(bytes, DecState))
    /\ UNCHANGED << pc, mode, encVars, bytes >>

CallDecodeChunk ==
    /\ pc = "concurrent"
    /\ dec_result = "Running"
    /\ produced < DecPixels
    /\ DecUpdate(DecStep(bytes, DecState))
    /\ UNCHANGED << pc, mode, encVars, bytes >>

CallDecodeEnd ==
    /\ pc = "concurrent"
    /\ dec_result = "Running"
    /\ produced = DecPixels
    /\ DecUpdate(DecFinish(DecState))
    /\ UNCHANGED << pc, mode, encVars, bytes >>

\* encode has returned and is called again, on other arguments; the memory of
\* the locals of the call before holds what that call left
CallEncodeAgain ==
    /\ pc = "concurrent"
    /\ mode = "calls"
    /\ enc_result \notin {"None", "Running"}
    /\ qoi' \in ConcDescriptors
    /\ pixels' \in ConcImages(qoi')
    /\ output' = Fill(encoded_size_limit(qoi'), Junk)
    /\ enc_result' = "None"
    /\ mode' = "called again"
    /\ UNCHANGED << pc, index, px_prev, run, consumed, written, enc_size, decVars >>

\* decode has returned and is called again, on other arguments
CallDecodeAgain ==
    /\ pc = "concurrent"
    /\ mode = "calls"
    /\ dec_result \notin {"None", "Running"}
    /\ bytes' \in ConcStreams
    /\ dec_output' = Fill(ConcPixels * 4 + OutSlack, Junk)
    /\ dec_result' = "None"
    /\ mode' = "called again"
    /\ UNCHANGED << pc, encVars, dec_index, px, produced, read, dec_qoi >>

NextCalls ==
    \/ CallEncode
    \/ CallEncodePixel
    \/ CallEncodeEnd
    \/ CallDecode
    \/ CallDecodeChunk
    \/ CallDecodeEnd
    \/ CallEncodeAgain
    \/ CallDecodeAgain

\* an encode call and a decode call interleaved step by step, and one more
\* call after one of them
CallsSpec == InitCalls /\ [][NextCalls]_vars

(***************************************************************************)
(* decode on headers whose dimensions are any u32 values.  The product     *)
(* width * height * channels is computed as the target computes it: in     *)
(* usize, here of 64 bits, on numbers held as little-endian sequences of   *)
(* bytes.                                                                  *)
(***************************************************************************)
\* the bytes of a usize on a 64-bit target
UsizeLimbs == 8

\* the little-endian limbs of a big-endian byte string, widened to n limbs
LimbsOfBe(bs, n) == [i \in 1..n |-> IF i <= Len(bs) THEN bs[Len(bs) + 1 - i] ELSE 0]

\* the n little-endian limbs of a small number
LimbsOfInt(v, n) ==
    [i \in 1..n |-> CASE i = 1 -> v % 256
                      [] i = 2 -> (v \div 256) % 256
                      [] i = 3 -> (v \div 65536) % 256
                      [] OTHER -> 0]

\* the sum of a[i] * b[j] over the limbs with i + j = k + 1
RECURSIVE ColSum(_, _, _, _)
ColSum(a, b, k, i) ==
    IF i > Len(a) THEN 0
    ELSE (IF k + 1 - i \in 1..Len(b) THEN a[i] * b[k + 1 - i] ELSE 0)
            + ColSum(a, b, k, i + 1)

RECURSIVE Normalize(_, _, _)
Normalize(cols, i, carry) ==
    IF i > Len(cols) THEN << >>
    ELSE << (cols[i] + carry) % 256 >> \o Normalize(cols, i + 1, (cols[i] + carry) \div 256)

\* the product of two numbers, exact: Len(a) + Len(b) limbs
MulLimbs(a, b) == Normalize([k \in 1..(Len(a) + Len(b)) |-> ColSum(a, b, k, 1)], 1, 0)

\* a * b in usize: the low limbs of the product, and whether the product
\* has more
UsizeMul(a, b) ==
    LET m == MulLimbs(a, b)
    IN  [value |-> Take(m, UsizeLimbs),
         overflow |-> \E i \in (UsizeLimbs + 1)..Len(m) : m[i] # 0]

LimbsZero(a) == \A i \in 1..Len(a) : a[i] = 0

\* a > n for a number n below 2^24
LimbsGreater(a, n) ==
    \/ \E i \in 4..Len(a) : a[i] # 0
    \/ a[1] + 256 * a[2] + 65536 * a[3] > n

\* a number below 2^24
LimbsSmall(a) == a[1] + 256 * a[2] + 65536 * a[3]

\* Qoi::decoded_size on the dimensions of a header: self.width as usize *
\* self.height as usize * self.colors.channels()
decoded_size_usize(wb, hb, N) ==
    LET wh == UsizeMul(LimbsOfBe(wb, UsizeLimbs), LimbsOfBe(hb, UsizeLimbs))
        whn == UsizeMul(wh.value, LimbsOfInt(N, UsizeLimbs))
    IN  [value |-> whn.value, overflow |-> wh.overflow \/ whn.overflow]

\* what Qoi::decode returns for a header with the dimension bytes wb and hb
\* when decoded_size() is px_len: the zero test, the slice of the output,
\* decode_range on the px_len bytes of it
DecodeWith(bs, out, wb, hb, N, px_len) ==
    IF LimbsZero(LimbsOfBe(wb, 4)) \/ LimbsZero(LimbsOfBe(hb, 4)) THEN "Ok"
    ELSE IF LimbsGreater(px_len, Len(out)) THEN "OutputIsTooSmall"
    ELSE IF LimbsSmall(px_len) % N # 0 THEN "Panic"
    ELSE DecLoop(bs,
            [output |-> Take(out, LimbsSmall(px_len)), index |-> DecFreshIndex(N),
             px |-> NewOpaque(N), produced |-> 0, read |-> 0, result |-> "Running",
             qoi |-> [width |-> LimbsSmall(px_len) \div N, height |-> 1,
                      colors |-> IF N = 4 THEN "Rgba" ELSE "Rgb"]]).result

\* the results of Qoi::decode the builds of the crate can give: an overflowing
\* multiplication panics when overflow checks are on and wraps when they are
\* off
DecodeWideResults(bs, out) ==
    IF Len(bs) < QOI_HEADER_SIZE THEN {"NotEnoughData"}
    ELSE IF SubSeq(bs, 1, 4) # ToBeBytes(QOI_MAGIC) THEN {"InvalidMagic"}
    ELSE IF HeaderColors(bs[13], bs[14]) \notin ColorsValues
    THEN { HeaderColors(bs[13], bs[14]) }
    ELSE LET wb == SubSeq(bs, 5, 8)
             hb == SubSeq(bs, 9, 12)
             N == Channels(HeaderColors(bs[13], bs[14]))
             size == decoded_size_usize(wb, hb, N)
         IN  IF LimbsZero(LimbsOfBe(wb, 4)) \/ LimbsZero(LimbsOfBe(hb, 4)) THEN {"Ok"}
             ELSE { DecodeWith(bs, out, wb, hb, N, size.value) }
                     \cup (IF size.overflow THEN {"Panic"} ELSE { })

\* dimensions of headers: 0, 1, 2, 2^8, 2^16, 2^30, 2^31, 2^32 - 1
DimBytes ==
    { <<0, 0, 0, 0>>, <<0, 0, 0, 1>>, <<0, 0, 0, 2>>, <<0, 0, 1, 0>>, <<0, 1, 0, 0>>,
      <<64, 0, 0, 0>>, <<128, 0, 0, 0>>, <<255, 255, 255, 255>> }

\* a decode call on a header of any dimensions, alone or followed by one
\* chunk, with an output buffer of no byte or of two pixels
InitWide ==
    /\ mode = "wide"
    /\ pc = "decode_wide"
    /\ EncIdle
    /\ \E wb \in DimBytes, hb \in DimBytes, ch \in {3, 4}, cs \in {0, 1}, body \in { << >>, <<127>> } :
          bytes = ToBeBytes(QOI_MAGIC) \o wb \o hb \o << ch, cs >> \o body
    /\ dec_output \in { Fill(n, Junk) : n \in {0, 8} }
    /\ DecIdle

DecodeWide ==
    /\ pc = "decode_wide"
    /\ dec_result' \in DecodeWideResults(bytes, dec_output)
    /\ pc' = "decoded"
    /\ UNCHANGED << mode, encVars, bytes, dec_output, dec_index, px, produced, read, dec_qoi >>

NextWide == DecodeWide

\* decode calls on headers of any dimensions
WideSpec == InitWide /\ [][NextWide]_vars

(***************************************************************************)
(* The reference encoder: the per-pixel decision of section 4.3 of the     *)
(* specification, written with signed deltas and without the missing crate *)
(* root's helpers.                                                         *)
(***************************************************************************)
\* a channel delta modulo 256 read as a signed value
Signed(d) == IF d >= 128 THEN d - 256 ELSE d

\* the alpha of a pixel of 3 or 4 channels, and the pixel with that alpha
RefAlpha(p) == IF Len(p) = 4 THEN p[4] ELSE 255

RefRgba(p) == <<p[1], p[2], p[3], RefAlpha(p)>>

\* index = (R*3 + G*5 + B*7 + A*11) mod 64
RefHash(p) == (p[1] * 3 + p[2] * 5 + p[3] * 7 + RefAlpha(p) * 11) % 64

\* which of INDEX, DIFF, LUMA, RGB, RGBA the decision picks for the pixel p
\* after the pixel q with the table idx: the topmost that applies
RefOperator(idx, q, p) ==
    LET dr == Signed((p[1] - q[1]) % 256)
        dg == Signed((p[2] - q[2]) % 256)
        db == Signed((p[3] - q[3]) % 256)
        sameAlpha == RefAlpha(p) = RefAlpha(q)
    IN  CASE idx[RefHash(p)] = RefRgba(p) -> "INDEX"
          [] sameAlpha /\ dr \in -2..1 /\ dg \in -2..1 /\ db \in -2..1 -> "DIFF"
          [] sameAlpha /\ dg \in -32..31 /\ dr - dg \in -8..7 /\ db - dg \in -8..7 -> "LUMA"
          [] sameAlpha -> "RGB"
          [] OTHER -> "RGBA"

\* the bytes of the operator
RefChunk(idx, q, p) ==
    LET dr == Signed((p[1] - q[1]) % 256)
        dg == Signed((p[2] - q[2]) % 256)
        db == Signed((p[3] - q[3]) % 256)
        op == RefOperator(idx, q, p)
    IN  CASE op = "INDEX" -> << RefHash(p) >>
          [] op = "DIFF" -> << 64 + (dr + 2) * 16 + (dg + 2) * 4 + (db + 2) >>
          [] op = "LUMA" -> << 128 + (dg + 32), (dr - dg + 8) * 16 + (db - dg + 8) >>
          [] op = "RGB" -> << 254, p[1], p[2], p[3] >>
          [] OTHER -> << 255, p[1], p[2], p[3], RefAlpha(p) >>

\* The state of the reference encoder: the body written, the table, the
\* previous pixel, the pending run, and the places of the body where a
\* pending run of one pixel was flushed before another pixel, each with the
\* hash of the previous pixel.
RefStart(N) ==
    [body |-> << >>, index |-> [i \in 0..63 |-> <<0, 0, 0, 0>>],
     prev |-> IF N = 4 THEN <<0, 0, 0, 255>> ELSE <<0, 0, 0>>, run |-> 0, ones |-> { }]

\* one pixel: steps 1 and 2 of the decision
RefStep(s, p, last) ==
    IF p = s.prev
    THEN IF s.run + 1 = 62 \/ last
         THEN [s EXCEPT !.body = s.body \o << 192 + s.run >>, !.run = 0]
         ELSE [s EXCEPT !.run = s.run + 1]
    ELSE LET flush == IF s.run > 0 THEN << 192 + (s.run - 1) >> ELSE << >>
         IN  [s EXCEPT !.body = s.body \o flush \o RefChunk(s.index, s.prev, p),
                       !.index = [s.index EXCEPT ![RefHash(p)] = RefRgba(p)],
                       !.prev = p,
                       !.run = 0,
                       !.ones = IF s.run = 1
                                THEN s.ones \cup { << Len(s.body) + 1, RefHash(s.prev) >> }
                                ELSE s.ones]

RECURSIVE RefLoop(_, _, _, _, _)
RefLoop(pix, N, n, k, s) ==
    IF k > n THEN s ELSE RefLoop(pix, N, n, k + 1, RefStep(s, PixelAt(pix, N, k), k = n))

\* the reference encoder on the n pixels of N channels of pix
RefEncode(pix, N, n) == RefLoop(pix, N, n, 1, RefStart(N))

(***************************************************************************)
(* Images of two pixels that differ by small deltas: the second pixel is   *)
(* the first with a delta from -3 to 2 added to each colour channel modulo *)
(* 256, from first pixels whose channels wrap around at both ends.         *)
(***************************************************************************)
DeltaBases == { <<0, 0, 0>>, <<255, 255, 0>>, <<1, 2, 128>> }

SmallDeltas == (-3)..2

\* the pixel of N channels with the colours of c and the alpha 255
Opaque(c, N) == IF N = 4 THEN <<c[1], c[2], c[3], 255>> ELSE c

\* the colours of c with the deltas added modulo 256
Shifted(c, dr, dg, db) == << (c[1] + dr) % 256, (c[2] + dg) % 256, (c[3] + db) % 256 >>

\* an encode call on a row of two such pixels, into a buffer of
\* encoded_size_limit() bytes
InitDelta ==
    /\ mode = "roundtrip"
    /\ pc = "encode"
    /\ qoi \in { [width |-> 2, height |-> 1, colors |-> c] : c \in {"Rgb", "Rgba"} }
    /\ \E c \in DeltaBases, dr \in SmallDeltas, dg \in SmallDeltas, db \in SmallDeltas :
          pixels = Opaque(c, Channels(qoi.colors))
                       \o Opaque(Shifted(c, dr, dg, db), Channels(qoi.colors))
    /\ output = Fill(encoded_size_limit(qoi), Junk)
    /\ index = [i \in 0..63 |-> <<0, 0, 0, 0>>]
    /\ px_prev = << >>
    /\ run = 0
    /\ consumed = 0
    /\ written = 0
    /\ enc_result = "None"
    /\ enc_size = 0
    /\ bytes = << >>
    /\ dec_output = << >>
    /\ DecIdle

\* encode calls on the images of small deltas, each followed by decode of
\* what it returned
DeltaSpec == InitDelta /\ [][Next]_vars

(***************************************************************************)
(* Images of two pixels around the limits of LUMA: the green delta of the  *)
(* second pixel to the first is at, or one beyond, -32 and 31 or small,    *)
(* and the red and the blue delta are the green delta plus a value at, or  *)
(* one beyond, -8 and 7, or plus none.                                     *)
(***************************************************************************)
GreenDeltas == { -33, -32, -1, 0, 31, 32 }

ToGreenDeltas == { -9, -8, 0, 7, 8 }

InitLuma ==
    /\ mode = "roundtrip"
    /\ pc = "encode"
    /\ qoi \in { [width |-> 2, height |-> 1, colors |-> c] : c \in {"Rgb", "Rgba"} }
    /\ \E c \in DeltaBases, dg \in GreenDeltas, e \in ToGreenDeltas, f \in ToGreenDeltas :
          pixels = Opaque(c, Channels(qoi.colors))
                       \o Opaque(Shifted(c, dg + e, dg, dg + f), Channels(qoi.colors))
    /\ output = Fill(encoded_size_limit(qoi), Junk)
    /\ index = [i \in 0..63 |-> <<0, 0, 0, 0>>]
    /\ px_prev = << >>
    /\ run = 0
    /\ consumed = 0
    /\ written = 0
    /\ enc_result = "None"
    /\ enc_size = 0
    /\ bytes = << >>
    /\ dec_output = << >>
    /\ DecIdle

\* encode calls on those images, each followed by decode of what it returned
LumaSpec == InitLuma /\ [][Next]_vars

(***************************************************************************)
(* encode on descriptors whose dimensions are any u32 values, the product  *)
(* width * height * channels computed in usize as above.                   *)
(***************************************************************************)
\* the header encode writes for the dimension bytes wb and hb
WideHeader(wb, hb, c) ==
    ToBeBytes(QOI_MAGIC) \o wb \o hb \o << Channels(c), ColorSpaceByte(c) >>

\* what Qoi::encode returns and leaves in the output for the dimension bytes
\* wb and hb when the product is px_len: the slice of the pixels,
\* encode_range on the px_len bytes of it with its assertion, the end marker
EncodeWith(wb, hb, c, pix, out, px_len) ==
    LET N == Channels(c)
        started == WriteAt(out, 0, WideHeader(wb, hb, c))
        e == encode([width |-> LimbsSmall(px_len) \div N, height |-> 1, colors |-> c],
                    pix, out)
    IN  IF LimbsGreater(px_len, Len(pix))
        THEN [result |-> "NotEnoughPixelData", output |-> started, size |-> 0]
        ELSE IF LimbsSmall(px_len) % N # 0
        THEN [result |-> "Panic", output |-> started, size |-> 0]
        ELSE [result |-> e.result, output |-> WriteAt(e.output, 0, WideHeader(wb, hb, c)),
              size |-> e.size]

\* the outcomes of Qoi::encode the builds of the crate can give: an
\* overflowing multiplication panics when overflow checks are on and wraps
\* when they are off
EncodeWideResults(wb, hb, c, pix, out) ==
    IF Len(out) <= QOI_HEADER_SIZE
    THEN { [result |-> "OutputIsTooSmall", output |-> out, size |-> 0] }
    ELSE LET size == decoded_size_usize(wb, hb, Channels(c))
         IN  { EncodeWith(wb, hb, c, pix, out, size.value) }
                 \cup (IF size.overflow
                       THEN { [result |-> "Panic",
                               output |-> WriteAt(out, 0, WideHeader(wb, hb, c)),
                               size |-> 0] }
                       ELSE { })

\* an encode call on a descriptor of any dimensions, with no pixel or two
\* pixels and an output buffer of the header's length, of an empty image's
\* stream, or of more
InitWideEnc ==
    /\ mode = "wide_encode"
    /\ pc = "encode_wide"
    /\ \E wb \in DimBytes, hb \in DimBytes, c \in ColorsValues :
          qoi = [width |-> wb, height |-> hb, colors |-> c]
    /\ pixels \in { << >>, <<0, 0, 0, 255, 0, 0, 0, 255>> }
    /\ output \in { Fill(n, Junk) : n \in { QOI_HEADER_SIZE, QOI_HEADER_SIZE + QOI_PADDING,
                                           QOI_HEADER_SIZE + QOI_PADDING + 10 } }
    /\ index = [i \in 0..63 |-> <<0, 0, 0, 0>>]
    /\ px_prev = << >>
    /\ run = 0
    /\ consumed = 0
    /\ written = 0
    /\ enc_result = "None"
    /\ enc_size = 0
    /\ bytes = << >>
    /\ dec_output = << >>
    /\ DecIdle

EncodeWide ==
    /\ pc = "encode_wide"
    /\ \E r \in EncodeWideResults(qoi.width, qoi.height, qoi.colors, pixels, output) :
          /\ enc_result' = r.result
          /\ output' = r.output
          /\ enc_size' = r.size
    /\ pc' = "encoded"
    /\ UNCHANGED << mode, qoi, pixels, index, px_prev, run, consumed, written, decVars >>

NextWideEnc == EncodeWide

\* encode calls on descriptors of any dimensions
WideEncSpec == InitWideEnc /\ [][NextWideEnc]_vars

(***************************************************************************)
(* Properties.                                                             *)
(***************************************************************************)
\* the bytes 'q', 'o', 'i', 'f'
MagicBytes == <<113, 111, 105, 102>>

\* the pixel count of the image encode() is called on
NumPixels == qoi.width * qoi.height

\* encode was called with an output buffer of exactly encoded_size_limit() bytes
OutputAtLimit == mode = "roundtrip" /\ Len(output) = encoded_size_limit(qoi)

\* C1: round trip. encode of a pixel buffer of exactly width*height*N bytes into
\* a buffer of encoded_size_limit() bytes returns Ok, and decode of the bytes it
\* produced returns Ok and writes the input pixel bytes.
C1_RoundTrip ==
    (OutputAtLimit /\ Len(pixels) = NumPixels * EncN) =>
        /\ pc = "encoded" => enc_result = "Ok"
        /\ pc = "decoded" =>
              /\ dec_result = "Ok"
              /\ Take(dec_output, NumPixels * EncN) = pixels

\* a round trip of a 4-channel image of three pixels, no two neighbours equal
C1_Witness ==
    /\ OutputAtLimit
    /\ pc = "decoded"
    /\ dec_result = "Ok"
    /\ EncN = 4
    /\ Len(pixels) = 12
    /\ PixelAt(pixels, 4, 1) # PixelAt(pixels, 4, 2)
    /\ PixelAt(pixels, 4, 2) # PixelAt(pixels, 4, 3)
    /\ Take(dec_output, 12) = pixels

\* C2: decode returns Ok or one of the five DecodeError values on every input;
\* it never aborts.
C2_DecodeNeverAborts == dec_result # "Panic"

\* C3: size bound. The length a successful encode returns is at most
\* width*height*(N+1) + 14 + 8.
C3_SizeBound ==
    (mode = "roundtrip" /\ enc_result = "Ok") => enc_size <= NumPixels * (EncN + 1) + 14 + 8

\* an encode that returns exactly the bound, into a buffer that had more room
C3_Witness ==
    /\ mode = "roundtrip"
    /\ enc_result = "Ok"
    /\ NumPixels >= 2
    /\ enc_size = NumPixels * (EncN + 1) + 14 + 8
    /\ Len(output) > enc_size

C5_HeaderDeterminism ==
    (mode = "roundtrip" /\ enc_result = "Ok") =>
        decode_header(Take(output, enc_size)) = [result |-> "Ok", qoi |-> qoi]

\* a successful encode of a descriptor with a large height and a linear color space
C5_Witness ==
    /\ mode = "roundtrip"
    /\ enc_result = "Ok"
    /\ qoi.height = BigDim
    /\ qoi.colors = "Rgba"

\* C6: a successful encode starts with 'q','o','i','f', the width and the
\* height as 4 big-endian bytes each, the channels byte 3 or 4 of the
\* descriptor, and a color-space byte 0 or 1.
C6_HeaderLayout ==
    (mode = "roundtrip" /\ enc_result = "Ok") =>
        /\ enc_size >= 14
        /\ \A i \in 1..14 : output[i] \in Byte
        /\ SubSeq(output, 1, 4) = MagicBytes
        /\ output[5] * 16777216 + output[6] * 65536 + output[7] * 256 + output[8] = qoi.width
        /\ output[9] * 16777216 + output[10] * 65536 + output[11] * 256 + output[12] = qoi.height
        /\ output[13] \in {3, 4}
        /\ output[13] = (IF qoi.colors \in {"Rgba", "SrgbLinA"} THEN 4 ELSE 3)
        /\ output[14] \in {0, 1}

\* a successful encode of a descriptor whose width has four different bytes
C6_Witness ==
    /\ mode = "roundtrip"
    /\ enc_result = "Ok"
    /\ qoi.width = BigDim
    /\ SubSeq(output, 5, 8) = <<1, 2, 3, 4>>

StreamDecoded == mode = "stream" /\ pc \in {"decode_range", "decoded"}

\* C8: decode_header returns NotEnoughData for an input shorter than 14 bytes
\* whatever it holds, and InvalidMagic for an input of at least 14 bytes that
\* does not start with 'qoif' whatever its channels and color-space bytes are.
C8_ShortAndMagic ==
    StreamDecoded =>
        /\ Len(bytes) < 14 => dec_result = "NotEnoughData"
        /\ (Len(bytes) >= 14 /\ SubSeq(bytes, 1, 4) # MagicBytes) => dec_result = "InvalidMagic"

\* a wrong magic in front of a wrong channels byte and a wrong color-space byte
C8_Witness ==
    /\ StreamDecoded
    /\ Len(bytes) >= 14
    /\ SubSeq(bytes, 1, 4) # MagicBytes
    /\ bytes[13] = 5
    /\ bytes[14] = 2
    /\ dec_result = "InvalidMagic"

\* a header of at least 14 bytes with the right magic
GoodMagic == StreamDecoded /\ Len(bytes) >= 14 /\ SubSeq(bytes, 1, 4) = MagicBytes

\* C9 as stated: decode_header returns InvalidChannelsValue whenever the
\* channels byte is not 3 or 4.
C9_AnyColorSpace ==
    (GoodMagic /\ bytes[13] \notin {3, 4}) => dec_result = "InvalidChannelsValue"

\* C9 amended: decode_header returns InvalidChannelsValue whenever the channels
\* byte is not 3 or 4 and the color-space byte is 0 or 1.
C9_InvalidChannels ==
    (GoodMagic /\ bytes[13] \notin {3, 4} /\ bytes[14] \in {0, 1}) =>
        dec_result = "InvalidChannelsValue"

\* a header with channels 5 and color space 1
C9_Witness ==
    /\ GoodMagic
    /\ bytes[13] = 5
    /\ bytes[14] = 1
    /\ dec_result = "InvalidChannelsValue"

\* C10: decode_header returns InvalidColorSpaceValue whenever the color-space
\* byte is not 0 or 1.
C10_InvalidColorSpace ==
    (GoodMagic /\ bytes[14] \notin {0, 1}) => dec_result = "InvalidColorSpaceValue"

\* a header with a wrong color-space byte and a wrong channels byte
C10_Witness ==
    /\ GoodMagic
    /\ bytes[13] = 5
    /\ bytes[14] = 2
    /\ dec_result = "InvalidColorSpaceValue"

\* the body left to read
Rest == Skip(bytes, QOI_HEADER_SIZE + read)

\* no byte is left, or the bytes left start a LUMA, RGB or RGBA chunk and end
\* before the chunk does
Truncated(rest) ==
    \/ rest = << >>
    \/ rest[1] \in 128..191 /\ Len(rest) < 2
    \/ rest[1] = 254 /\ Len(rest) < 4
    \/ rest[1] = 255 /\ Len(rest) < 5

\* C11: when decode_range has an output pixel to fill and the body has ended,
\* or ends inside a LUMA, RGB or RGBA chunk, the call returns NotEnoughData
\* at that step: the cut chunk is decoded as nothing else, and no byte of the
\* output is written for it.
C11_TruncatedBody ==
    [][(pc = "decode_range" /\ produced < DecPixels /\ Truncated(Rest))
        => (pc' = "decoded" /\ dec_result' = "NotEnoughData"
            /\ dec_output' = dec_output /\ read' = read)]_vars

\* a chunk was decoded, then an RGB chunk cut short was met
C11_Witness ==
    /\ pc = "decoded"
    /\ dec_result = "NotEnoughData"
    /\ read > 0
    /\ Rest # << >>
    /\ Rest[1] = 254
    /\ Len(Rest) \in 1..3

\* the input starts with a header decode_header accepts
ValidHeader == GoodMagic /\ bytes[13] \in {3, 4} /\ bytes[14] \in {0, 1}

\* width * height * channels, read from the header bytes
HeaderPixelBytes ==
    FromBeBytes(SubSeq(bytes, 5, 8)) * FromBeBytes(SubSeq(bytes, 9, 12)) * bytes[13]

Trailers == { << >>, EndMarker, <<255>>, <<254, 1, 2>>, <<0>>, <<193, 7>> }

\* the input up to and including the chunk that produced the last pixel; the
\* RUN chunk on which split_at_mut panics is that chunk and is not counted in
\* `read`
LastPixelPrefix ==
    Take(bytes, QOI_HEADER_SIZE + read + (IF dec_result = "Panic" THEN 1 ELSE 0))

\* decode of the prefix followed by the trailer t returns Ok with the
\* descriptor and the output bytes this decode has
SameDecode(t) ==
    LET d == decode(LastPixelPrefix \o t, Fill(Len(dec_output), Junk))
    IN  d.result = "Ok" /\ d.output = dec_output /\ d.qoi = dec_qoi

\* C13: decode of an input in which a chunk produces the last pixel depends
\* on the input up to that chunk only: with anything else after the chunk it
\* returns Ok and writes the same output bytes.
C13_TrailingBytes ==
    (mode = "stream" /\ pc = "decoded" /\ dec_result \in {"Ok", "Panic"}) =>
        \A t \in Trailers : SameDecode(t)

\* C13 on the inputs decode returns Ok for: what follows the last chunk read
\* changes neither the result nor the output
C13_OkIgnoresTrailer ==
    (mode = "stream" /\ pc = "decoded" /\ dec_result = "Ok") =>
        \A t \in Trailers : SameDecode(t)

\* encode has returned
Encoded == mode = "roundtrip" /\ pc # "encode" /\ enc_result # "Running"

FullLength ==
    encode(qoi, pixels,
           Fill(QOI_HEADER_SIZE + 5 * NumPixels + QOI_PADDING, Junk)).size

C15_WitnessShort ==
    /\ mode = "roundtrip"
    /\ pc = "encoded"
    /\ NumPixels = 2
    /\ consumed = 2
    /\ Len(output) = FullLength - 1
    /\ enc_result = "OutputIsTooSmall"

\* a step of decode_range that does not fail stores the current pixel to the
\* output pixels it takes and leaves every other byte of the buffer alone
StepFrame ==
    (pc = "decode_range" /\ dec_result' \in {"Running", "Ok"}) =>
        /\ Len(dec_output') = Len(dec_output)
        /\ \A i \in 1..Len(dec_output) :
              IF i > produced * DecN /\ i <= produced' * DecN
              THEN dec_output'[i] = px'[((i - 1) % DecN) + 1]
              ELSE dec_output'[i] = dec_output[i]

\* when decode has returned Ok for an image with pixels, every pixel of the
\* image was taken and the bytes behind the image are the caller's
FinalFrame ==
    (pc = "decoded" /\ dec_result = "Ok" /\ DecPixels > 0) =>
        /\ produced = DecPixels
        /\ \A i \in 1..Len(dec_output) : i > DecPixels * DecN => dec_output[i] = Junk

RunBeyondImage ==
    /\ mode = "stream"
    /\ pc = "decoded"
    /\ dec_result \notin {"NotEnoughData", "OutputIsTooSmall"}
    /\ produced > 0
    /\ produced <= DecPixels
    /\ Rest # << >>
    /\ Rest[1] \in 192..253
    /\ Rest[1] - 192 > DecPixels - produced

\* C18: when a RUN chunk's repeat count is more than the pixels still to be
\* written, decode fills the pixels left with the current pixel, writes
\* nothing behind them, and returns Ok.
C18_RunClamped ==
    RunBeyondImage =>
        /\ dec_result = "Ok"
        /\ \A i \in 1..Len(dec_output) :
              i > DecPixels * DecN => dec_output[i] = Junk

NextPixel == PixelAt(pixels, EncN, consumed + 1)

\* the bytes a step of encode_range wrote: a step on a pixel equal to the
\* previous one writes nothing or one RUN byte whose 6 low bits are the pending
\* run; a step on another pixel first writes, for a pending run, an INDEX or a
\* RUN byte, then a chunk whose first byte is 0xFE only if the chunk has 4
\* bytes and 0xFF only if it has 5
RunStep ==
    (pc = "encode_range" /\ written' > written) =>
        LET b == output'[QOI_HEADER_SIZE + written + 1]
            f == IF run > 0 THEN 1 ELSE 0
            t == output'[QOI_HEADER_SIZE + written + f + 1]
        IN  IF NextPixel = px_prev
            THEN /\ written' = written + 1
                 /\ b \in 192..253
                 /\ b - 192 = run
                 /\ run' = 0
            ELSE /\ run > 0 => b \in (0..63) \cup (192..253)
                 /\ t = 254 <=> written' = written + f + 4
                 /\ t = 255 <=> written' = written + f + 5

\* C17: the pending run never exceeds 61; every byte the encoder writes for a
\* run is in 0xC0..0xFD, that is a RUN of 1 to 62 pixels (or the INDEX byte
\* that stands for a run of one); 0xFE and 0xFF start RGB and RGBA chunks and
\* nothing else.
C17_RunBound == [](run <= 61) /\ [][RunStep]_vars

\* the 62nd pixel of a run wrote the byte 0xFD and the image goes on
C17_Witness ==
    /\ pc = "encode_range"
    /\ consumed = 62
    /\ consumed < NumPixels
    /\ run = 0
    /\ written >= 1
    /\ output[QOI_HEADER_SIZE + written] = 253

\* the encode call has returned what encode returns for its arguments when
\* run alone from start to end
EncodeAlone ==
    LET e == encode(qoi, pixels, Fill(Len(output), Junk))
    IN  /\ enc_result = e.result
        /\ output = e.output
        /\ e.result = "Ok" => enc_size = e.size

\* the decode call has returned what decode returns for its arguments when
\* run alone from start to end
DecodeAlone ==
    LET d == decode(bytes, Fill(Len(dec_output), Junk))
    IN  /\ dec_result = d.result
        /\ dec_output = d.output
        /\ d.result = "Ok" => dec_qoi = d.qoi

\* C20: a call creates its table, previous pixel and run counter itself, so
\* what it returns and writes is a function of its arguments: an encode call
\* and a decode call stepped in any interleaving on their own buffers, and a
\* call made after another call has returned, each end with the result and the
\* output of the same call run alone.
C20_CallsIndependent ==
    pc = "concurrent" =>
        /\ enc_result \notin {"None", "Running"} => EncodeAlone
        /\ dec_result \notin {"None", "Running"} => DecodeAlone

\* a second encode call has returned while the decode call is in its loop
C20_Witness ==
    /\ pc = "concurrent"
    /\ mode = "called again"
    /\ enc_result = "Ok"
    /\ run = 0
    /\ consumed = ConcPixels
    /\ dec_result = "Running"
    /\ produced = 1

\* the dimension bytes and the channel count of the header in `bytes`
WideW == SubSeq(bytes, 5, 8)

WideH == SubSeq(bytes, 9, 12)

\* width * height * N of the header, exact
TrueSize == MulLimbs(MulLimbs(LimbsOfBe(WideW, 4), LimbsOfBe(WideH, 4)), <<bytes[13]>>)

\* C21: for every width and height of a header, decoded_size() is the
\* product width*height*N, the multiplication in usize does not overflow, and
\* decode tests the output buffer against that product: with non-zero
\* dimensions and a buffer shorter than the product it returns
\* OutputIsTooSmall.
C21_DecodedSizeExact ==
    (mode = "wide" /\ pc = "decoded") =>
        LET size == decoded_size_usize(WideW, WideH, bytes[13])
        IN  /\ ~size.overflow
            /\ [i \in 1..Len(TrueSize) |-> IF i <= UsizeLimbs THEN size.value[i] ELSE 0]
                  = TrueSize
            /\ (~LimbsZero(TrueSize) /\ LimbsGreater(TrueSize, Len(dec_output)))
                  => dec_result = "OutputIsTooSmall"

\* C21 on the headers whose product fits a usize: decoded_size() is the
\* product and the output buffer is tested against it
C21_ExactWhenFits ==
    (mode = "wide" /\ pc = "decoded" /\ \A i \in (UsizeLimbs + 1)..Len(TrueSize) : TrueSize[i] = 0) =>
        LET size == decoded_size_usize(WideW, WideH, bytes[13])
        IN  /\ ~size.overflow
            /\ size.value = Take(TrueSize, UsizeLimbs)
            /\ (~LimbsZero(TrueSize) /\ LimbsGreater(TrueSize, Len(dec_output)))
                  => dec_result = "OutputIsTooSmall"

\* a header of 2^31 x 2^31 pixels of 4 channels was decoded to Ok
C21_WrapsToZero ==
    /\ mode = "wide"
    /\ pc = "decoded"
    /\ WideW = <<128, 0, 0, 0>>
    /\ WideH = <<128, 0, 0, 0>>
    /\ bytes[13] = 4
    /\ dec_result = "Ok"

\* encode_range takes a pixel that differs from the previous one while a run
\* is pending, and has room for it
FlushesRun ==
    /\ pc = "encode_range"
    /\ consumed < EncPixelCount(qoi)
    /\ run > 0
    /\ NextPixel # px_prev
    /\ enc_result' = "Running"

\* the first byte the step writes
FlushByte == output'[QOI_HEADER_SIZE + written + 1]

CodeStream == Take(output, enc_size)

CodeBody == SubSeq(output, QOI_HEADER_SIZE + 1, enc_size - QOI_PADDING)

Reference == RefEncode(pixels, EncN, NumPixels)

RefStream(body) == Take(output, QOI_HEADER_SIZE) \o body \o EndMarker

\* what decode makes of a stream in a buffer of the image's size
DecodedPixels(stream) ==
    LET d == decode(stream, Fill(NumPixels * EncN, Junk))
    IN  [result |-> d.result, pixels |-> d.output]

\* C23: the stream encode produces has the length of the reference
\* algorithm's stream, differs from it only at a byte where the reference
\* flushed a pending run of one pixel before a differing pixel, where the
\* reference has RUN(1) and encode has INDEX | hash(previous pixel), and both
\* streams decode to the pixels of the image.
C23_SameAsReference ==
    (mode = "roundtrip" /\ pc = "encoded" /\ enc_result = "Ok") =>
        LET ref == Reference
            body == CodeBody
            image == [result |-> "Ok", pixels |-> Take(pixels, NumPixels * EncN)]
        IN  /\ Len(body) = Len(ref.body)
            /\ \A i \in 1..Len(body) :
                  body[i] # ref.body[i] =>
                      /\ ref.body[i] = 192
                      /\ \E f \in ref.ones : f[1] = i /\ body[i] = f[2]
            /\ DecodedPixels(CodeStream) = image
            /\ DecodedPixels(RefStream(ref.body)) = image

\* an image of three pixels whose second pixel repeats the first: the run of
\* one is flushed as INDEX where the reference writes RUN(1)
C23_Witness ==
    /\ mode = "roundtrip"
    /\ pc = "encoded"
    /\ enc_result = "Ok"
    /\ NumPixels = 3
    /\ \E i \in 1..Len(CodeBody) :
          /\ Reference.body[i] = 192
          /\ CodeBody[i] < 64
          /\ CodeBody[i] = PxHash(PixelAt(pixels, EncN, 1))


\* the step of encode_range that takes a pixel different from the previous
\* one and goes on
EncodesPixel ==
    /\ pc = "encode_range"
    /\ consumed < EncPixelCount(qoi)
    /\ NextPixel # px_prev
    /\ enc_result' = "Running"

\* the bytes that step writes after the byte of the pending run
PixelChunk ==
    SubSeq(output', QOI_HEADER_SIZE + written + (IF run > 0 THEN 1 ELSE 0) + 1,
           QOI_HEADER_SIZE + written')

\* the operator of a chunk: its tag and its length
ChunkOperator(c) ==
    CASE c[1] = 255 /\ Len(c) = 5 -> "RGBA"
      [] c[1] = 254 /\ Len(c) = 4 -> "RGB"
      [] c[1] \in 0..63 /\ Len(c) = 1 -> "INDEX"
      [] c[1] \in 64..127 /\ Len(c) = 1 -> "DIFF"
      [] c[1] \in 128..191 /\ Len(c) = 2 -> "LUMA"
      [] OTHER -> "none"

\* C24: for a pixel that differs from the previous pixel, encode_range writes
\* exactly one chunk that is not a run, the first that applies in the order
\* INDEX, DIFF, LUMA, RGB (alpha unchanged), RGBA (alpha changed), with the
\* bytes of that operator, so a pixel that fits INDEX, DIFF or LUMA is never
\* written as a longer chunk.
C24_FirstApplicable ==
    [][EncodesPixel =>
        LET chunk == PixelChunk
        IN  /\ chunk # << >>
            /\ ChunkOperator(chunk) = RefOperator(index, px_prev, NextPixel)
            /\ chunk = RefChunk(index, px_prev, NextPixel)]_vars

\* a pixel that fits both DIFF and LUMA and is not in the table has been
\* written as the one byte of DIFF
C24_Witness ==
    /\ pc = "encode_range"
    /\ enc_result = "Running"
    /\ consumed = 1
    /\ written = 1
    /\ px_prev = PixelAt(pixels, EncN, 1)
    /\ Take(px_prev, 3) = <<1, 255, 254>>
    /\ output[QOI_HEADER_SIZE + 1] \in 64..127


\* the differing pixel of a 4-channel image has another alpha than the
\* previous pixel
AlphaChanges == EncodesPixel /\ EncN = 4 /\ NextPixel[4] # px_prev[4]

\* C25 as stated: every pixel of a 4-channel image whose alpha differs from
\* the previous pixel's is written as the RGBA chunk 0xFF, R, G, B, A.
C25_AlwaysRgba == [][AlphaChanges => PixelChunk = << 255 >> \o NextPixel]_vars

\* C25: in a 4-channel image a pixel whose alpha differs from the previous
\* pixel's is written as INDEX when the table holds it and else as the RGBA
\* chunk 0xFF, R, G, B, A, never as DIFF, LUMA or RGB; in a 3-channel image
\* no RGBA chunk is written.
C25_AlphaChange ==
    [][/\ AlphaChanges =>
            /\ ChunkOperator(PixelChunk) \notin {"DIFF", "LUMA", "RGB"}
            /\ PixelChunk = IF index[PxHash(NextPixel)] = NextPixel
                            THEN << PxHash(NextPixel) >>
                            ELSE << 255 >> \o NextPixel
       /\ (EncodesPixel /\ EncN = 3) => PixelChunk[1] # 255]_vars

\* the first pixel of a 4-channel image has alpha 128 and was written as the
\* five bytes of RGBA
C25_Witness ==
    /\ pc = "encode_range"
    /\ enc_result = "Running"
    /\ EncN = 4
    /\ consumed = 1
    /\ written = 5
    /\ px_prev = PixelAt(pixels, 4, 1)
    /\ px_prev[4] = 128
    /\ SubSeq(output, QOI_HEADER_SIZE + 1, QOI_HEADER_SIZE + 5) = << 255 >> \o px_prev


\* the operators whose pixel is written to the table
TableOperators == {"DIFF", "LUMA", "RGB", "RGBA"}

\* the table with the pixel p, as the entry e, at the slot of its hash
WithPixel(idx, p, e) == [idx EXCEPT ![PxHash(p)] = e]

\* a step of encode_range: the table changes only at the slot of the pixel
\* taken, and only when the pixel was written as DIFF, LUMA, RGB or RGBA; a
\* pixel that extends or ends a run leaves the table and the previous pixel
EncTableFrame ==
    pc = "encode_range" =>
        /\ index' # index => EncodesPixel
        /\ EncodesPixel =>
              index' = IF ChunkOperator(PixelChunk) \in TableOperators
                       THEN WithPixel(index, NextPixel, PxRgba(NextPixel))
                       ELSE index
        /\ (consumed < EncPixelCount(qoi) /\ NextPixel = px_prev) =>
              index' = index /\ px_prev' = px_prev

\* the operator of the chunk a step of decode_range reads
DecTag ==
    LET b == bytes[QOI_HEADER_SIZE + read + 1]
    IN  CASE b \in 0..63 -> "INDEX"
          [] b \in 64..127 -> "DIFF"
          [] b \in 128..191 -> "LUMA"
          [] b \in 192..253 -> "RUN"
          [] b = 254 -> "RGB"
          [] OTHER -> "RGBA"

\* a step of decode_range: the same for the chunk read, and a RUN chunk
\* leaves the previous pixel
DecTableFrame ==
    pc = "decode_range" =>
        /\ dec_index' # dec_index => read' > read
        /\ read' > read =>
              /\ dec_index' = IF DecTag \in TableOperators
                              THEN WithPixel(dec_index, px', px')
                              ELSE dec_index
              /\ DecTag = "RUN" => px' = px

\* C26: in the encoder and in the decoder the table is written only at the
\* slot hash(p) and only when the pixel p is emitted or consumed as DIFF,
\* LUMA, RGB or RGBA; an INDEX chunk or a RUN chunk, the encoder's INDEX for
\* a run of one included, leaves the 64 slots as they are, and a RUN leaves
\* the previous pixel as it is.
C26_TableFrame == [][EncTableFrame /\ DecTableFrame]_vars

\* the decoder has finished an image of three pixels whose stream is an RGB
\* chunk and a RUN chunk: its table holds the one pixel, and the encoder's
\* table is not the fresh one either
C26_Witness ==
    /\ pc = "decoded"
    /\ dec_result = "Ok"
    /\ produced = 3
    /\ bytes[QOI_HEADER_SIZE + 1] = 254
    /\ bytes[QOI_HEADER_SIZE + 5] \in 192..253
    /\ \E i \in 0..63 : /\ dec_index[i] = px
                        /\ \A j \in (0..63) \ {i} : dec_index[j] = DecFreshIndex(DecN)[j]
    /\ index # EncFreshIndex


\* the locals of encode_range after the first k pixels of the image
RECURSIVE EncPrefix(_, _, _, _)
EncPrefix(q, pix, s, k) ==
    IF s.consumed >= k \/ s.result # "Running" THEN s
    ELSE EncPrefix(q, pix, EncStep(q, pix, s), k)

EncoderAfter(k) ==
    EncPrefix(qoi, pixels,
              EncStart(qoi, pixels,
                  [output |-> Fill(Len(output), Junk), index |-> EncFreshIndex,
                   px_prev |-> << >>, run |-> 0, consumed |-> 0, written |-> 0,
                   result |-> "None", size |-> 0]), k)

\* C27: the decoder run on the stream the encoder produced for an image that
\* has pixels has, after each chunk, the table and the previous pixel the
\* encoder had where it emitted that chunk, that is after the pixels the
\* chunks so far stand for (the
\* entries of a 3-channel image compared on R, G, B), and the previous pixel
\* is the pixel of the image at that place: every INDEX chunk resolves to the
\* pixel the encoder meant.
C27_Convergence ==
    (mode = "roundtrip" /\ pc \in {"decode_range", "decoded"}
        /\ dec_result \in {"Running", "Ok"} /\ NumPixels > 0) =>
        LET e == EncoderAfter(produced)
        IN  /\ e.consumed = produced
            /\ px = e.px_prev
            /\ \A i \in 0..63 : Take(dec_index[i], 3) = Take(e.index[i], 3)
            /\ EncN = 4 => dec_index = e.index
            /\ produced > 0 => px = PixelAt(pixels, EncN, produced)

\* the decoder has resolved the INDEX chunk of a third pixel that repeats the
\* first after another pixel
C27_Witness ==
    /\ mode = "roundtrip"
    /\ pc = "decoded"
    /\ dec_result = "Ok"
    /\ produced = 3
    /\ Take(PixelAt(pixels, EncN, 1), 3) = <<64, 0, 0>>
    /\ PixelAt(pixels, EncN, 2) # PixelAt(pixels, EncN, 1)
    /\ PixelAt(pixels, EncN, 3) = PixelAt(pixels, EncN, 1)
    /\ bytes[Len(bytes) - QOI_PADDING] = PxHash(px)
    /\ dec_index[PxHash(px)] = px


\* a step of encode_range that starts its bytes with a RUN chunk: the end of a
\* run or the flush of a pending run
EncEmitsRun ==
    /\ pc = "encode_range"
    /\ consumed < EncPixelCount(qoi)
    /\ written' > written
    /\ output'[QOI_HEADER_SIZE + written + 1] \in 192..253

\* a step of decode_range that reads a RUN chunk
DecConsumesRun == pc = "decode_range" /\ read' > read /\ DecTag = "RUN"

\* the slot of the previous pixel holds the previous pixel
EncSlotHoldsPrev == index[PxHash(px_prev)] = PxRgba(px_prev)

DecSlotHoldsPrev == dec_index[PxHash(px)] = px

\* C28 as stated: whenever the encoder emits a RUN chunk or the decoder
\* consumes one, the table slot hash(previous pixel) holds the previous pixel.
C28_SlotHoldsPrev ==
    [][/\ EncEmitsRun => EncSlotHoldsPrev
       /\ DecConsumesRun => DecSlotHoldsPrev]_vars

\* C28: whenever the encoder emits a RUN chunk, or the decoder consumes one
\* from a stream the encoder produced, the table slot hash(previous pixel)
\* holds the previous pixel, unless the previous pixel is still the initial
\* one and the table is still the fresh one: a run of the initial pixel
\* (0,0,0,255) before any other chunk finds slot 0x35 all zero.
C28_SlotHoldsPrevOnceWritten ==
    [][/\ EncEmitsRun =>
            \/ EncSlotHoldsPrev
            \/ px_prev = NewOpaque(EncN) /\ index = EncFreshIndex
       /\ DecConsumesRun =>
            \/ DecSlotHoldsPrev
            \/ px = NewOpaque(DecN) /\ dec_index = DecFreshIndex(DecN)]_vars

\* the decoder has finished an image of three equal pixels that are not the
\* initial pixel: a chunk for the first and a RUN chunk for the others, with
\* the pixel in its slot of both tables
C28_Witness ==
    /\ mode = "roundtrip"
    /\ pc = "decoded"
    /\ dec_result = "Ok"
    /\ produced = 3
    /\ px # NewOpaque(DecN)
    /\ bytes[Len(bytes) - QOI_PADDING] = 193
    /\ DecSlotHoldsPrev
    /\ EncSlotHoldsPrev


\* the body written so far holds a chunk that is not a RUN chunk
NonRunEmitted ==
    \E i \in 1..written : output[QOI_HEADER_SIZE + i] \notin 192..253

\* the step of encode_range that flushes a pending run of one pixel
FlushesOne == FlushesRun /\ run = 1

\* what that step may do: an INDEX byte for a previous pixel its slot holds,
\* or the RUN byte for the initial previous pixel before any non-run chunk
FlushOfOne ==
    FlushesOne =>
        /\ FlushByte \in (0..63) \cup {192}
        /\ FlushByte \in 0..63 => FlushByte = PxHash(px_prev) /\ EncSlotHoldsPrev
        /\ FlushByte = 192 <=> (px_prev = NewOpaque(EncN) /\ ~NonRunEmitted)

\* C29: when the encoder flushes a pending run of one pixel as the byte
\* INDEX | hash(prev), the slot hash(prev) holds prev; it takes the RUN
\* fallback exactly when prev is the initial previous pixel (0,0,0,255) and
\* no non-run chunk has been emitted yet; and once a non-run chunk has been
\* emitted, table[hash(prev)] = prev holds throughout encode_range.
C29_FlushOfOne ==
    /\ []((pc = "encode_range" /\ NonRunEmitted) => EncSlotHoldsPrev)
    /\ [][FlushOfOne]_vars

\* a 3-channel image (64,0,0), (64,0,0), other: the first pixel is an RGB
\* chunk, and its repetition was flushed as INDEX | 0x35, the slot that now
\* holds the pixel
C29_Witness ==
    /\ pc = "encode_range"
    /\ EncN = 3
    /\ consumed = 3
    /\ run = 0
    /\ PixelAt(pixels, 3, 1) = <<64, 0, 0>>
    /\ PixelAt(pixels, 3, 2) = <<64, 0, 0>>
    /\ output[QOI_HEADER_SIZE + 1] = 254
    /\ output[QOI_HEADER_SIZE + 5] = 53


\* the signed deltas of the pixel taken to the previous pixel
DeltaOf(c) == Signed((NextPixel[c] - px_prev[c]) % 256)

\* the step of encode_range takes a pixel that misses the table and has the
\* alpha of the previous pixel
MissesSameAlpha ==
    /\ EncodesPixel
    /\ index[PxHash(NextPixel)] # PxRgba(NextPixel)
    /\ PxA(NextPixel) = PxA(px_prev)

\* the step of decode_range reads a DIFF chunk; the two-bit fields of its byte
DecodesDiff == pc = "decode_range" /\ read' > read /\ DecTag = "DIFF"

DiffField(k) == (bytes[QOI_HEADER_SIZE + read + 1] \div k) % 4

\* C30: for a pixel that differs from the previous pixel, misses the table
\* and has the same alpha, the encoder writes the one byte
\* 0x40 | (dr+2)<<4 | (dg+2)<<2 | (db+2) if and only if each of the deltas
\* dr, dg, db modulo 256, read as signed, is in -2..1 (255 -> 0 is +1 and
\* 0 -> 254 is -2); a delta of -3 or +2 never gives DIFF; and the decoder's
\* DIFF arm adds the same deltas modulo 256 and has the pixel of the image.
C30_DiffExact ==
    [][/\ MissesSameAlpha =>
            IF DeltaOf(1) \in -2..1 /\ DeltaOf(2) \in -2..1 /\ DeltaOf(3) \in -2..1
            THEN PixelChunk = << 64 + (DeltaOf(1) + 2) * 16 + (DeltaOf(2) + 2) * 4
                                    + (DeltaOf(3) + 2) >>
            ELSE PixelChunk[1] \notin 64..127
       /\ DecodesDiff =>
            /\ px'[1] = (px[1] + DiffField(16) - 2) % 256
            /\ px'[2] = (px[2] + DiffField(4) - 2) % 256
            /\ px'[3] = (px[3] + DiffField(1) - 2) % 256
            /\ Len(px') = Len(px)
            /\ Len(px) = 4 => px'[4] = px[4]
            /\ px' = PixelAt(pixels, EncN, produced')]_vars

\* the pixel (0,0,254) after (255,255,0), deltas +1, +1, -2 across both ends
\* of the byte range, was written as the DIFF byte 0x7C and decoded again
C30_Witness ==
    /\ pc = "decoded"
    /\ dec_result = "Ok"
    /\ Take(pixels, 3) = <<255, 255, 0>>
    /\ Take(px, 3) = <<0, 0, 254>>
    /\ bytes[Len(bytes) - QOI_PADDING] = 124
    /\ Take(dec_output, Len(pixels)) = pixels

\* the deltas of red and of blue to the delta of green, modulo 256 and read
\* as signed
ToGreen(c) == Signed((DeltaOf(c) - DeltaOf(2)) % 256)

FitsDiff == DeltaOf(1) \in -2..1 /\ DeltaOf(2) \in -2..1 /\ DeltaOf(3) \in -2..1

FitsLuma == DeltaOf(2) \in -32..31 /\ ToGreen(1) \in -8..7 /\ ToGreen(3) \in -8..7

\* the step of decode_range reads a LUMA chunk; the fields of its two bytes
DecodesLuma == pc = "decode_range" /\ read' > read /\ DecTag = "LUMA"

LumaGreen == (bytes[QOI_HEADER_SIZE + read + 1] % 64) - 32

LumaRed == (bytes[QOI_HEADER_SIZE + read + 2] \div 16) - 8

LumaBlue == (bytes[QOI_HEADER_SIZE + read + 2] % 16) - 8

\* C31: for a pixel that differs from the previous pixel, misses the table,
\* has the same alpha and does not fit DIFF, the encoder writes the two bytes
\* 0x80 | (dg+32), (dr-dg+8)<<4 | (db-dg+8) if and only if dg is in -32..31
\* and dr-dg and db-dg are in -8..7 (modulo 256, read as signed), and else
\* the RGB chunk: dg = -32 and dg = 31 fit, dg = -33 and dg = 32 give RGB;
\* and the decoder's LUMA arm has the pixel of the image.
C31_LumaExact ==
    [][/\ (MissesSameAlpha /\ ~FitsDiff) =>
            IF FitsLuma
            THEN PixelChunk = << 128 + (DeltaOf(2) + 32),
                                 (ToGreen(1) + 8) * 16 + (ToGreen(3) + 8) >>
            ELSE PixelChunk = << 254 >> \o Take(NextPixel, 3)
       /\ DecodesLuma =>
            /\ px'[2] = (px[2] + LumaGreen) % 256
            /\ px'[1] = (px[1] + LumaGreen + LumaRed) % 256
            /\ px'[3] = (px[3] + LumaGreen + LumaBlue) % 256
            /\ Len(px') = Len(px)
            /\ Len(px) = 4 => px'[4] = px[4]
            /\ px' = PixelAt(pixels, EncN, produced')]_vars

\* the pixel (216,224,231) after two pixels (0,0,0), deltas dg = -32,
\* dr-dg = -8, db-dg = 7, was written as the LUMA bytes 0x80 0x0F and decoded
\* again
C31_Witness ==
    /\ pc = "decoded"
    /\ dec_result = "Ok"
    /\ Take(pixels, 3) = <<0, 0, 0>>
    /\ Take(px, 3) = <<216, 224, 231>>
    /\ bytes[Len(bytes) - QOI_PADDING - 1] = 128
    /\ bytes[Len(bytes) - QOI_PADDING] = 15
    /\ Take(dec_output, Len(pixels)) = pixels

\* the pixel with dg = -33 after (0,0,0) was written as an RGB chunk
C31_WitnessBeyond ==
    /\ pc = "decoded"
    /\ dec_result = "Ok"
    /\ Take(pixels, 3) = <<0, 0, 0>>
    /\ Take(px, 3) = <<223, 223, 223>>
    /\ bytes[Len(bytes) - QOI_PADDING - 3] = 254

\* a step of decode_range whose input starts with the byte b
DecLeads(b) ==
    /\ pc = "decode_range"
    /\ produced < DecPixels
    /\ Len(bytes) > QOI_HEADER_SIZE + read
    /\ bytes[QOI_HEADER_SIZE + read + 1] = b

\* the bytes left of the input at that step
DecLeft == Len(bytes) - QOI_HEADER_SIZE - read

\* that step takes a chunk of n bytes for one pixel whose colours are the
\* three bytes after the tag, or fails for want of bytes: it is no RUN
TakesColours(n) ==
    IF DecLeft >= n
    THEN /\ dec_result' = "Running"
         /\ read' = read + n
         /\ produced' = produced + 1
         /\ Take(px', 3) = SubSeq(bytes, QOI_HEADER_SIZE + read + 2, QOI_HEADER_SIZE + read + 4)
         /\ SubSeq(dec_output', produced * DecN + 1, produced * DecN + DecN) = px'
    ELSE dec_result' = "NotEnoughData" /\ read' = read

\* that step takes the byte b as a RUN: the previous pixel (b & 0x3F) + 1
\* times, and the previous pixel stays
TakesRun(b) ==
    /\ dec_result' \in {"Running", "Ok"}
    /\ read' = read + 1
    /\ produced' = produced + (b % 64) + 1
    /\ px' = px
    /\ \A k \in (produced + 1)..produced' :
          SubSeq(dec_output', (k - 1) * DecN + 1, k * DecN) = px

\* C32 as stated: the decoder takes a leading 0xFE only as the RGB tag and a
\* leading 0xFF only as the RGBA tag, with NotEnoughData when too few bytes
\* follow, and every leading byte 0xC0..0xFD as a RUN that emits the previous
\* pixel (b1 & 0x3F) + 1 times and leaves the previous pixel.
C32_TagsBeforeRun ==
    [][/\ DecLeads(254) => TakesColours(4)
       /\ DecLeads(255) => TakesColours(5)
       /\ \A b \in 192..253 : DecLeads(b) => TakesRun(b)]_vars

\* The same with the RUN chunks that do not run beyond the last pixel of the
\* image: for those, and for 0xFE and 0xFF, the code does as C32 says.
C32_TagsBeforeRunInImage ==
    [][/\ DecLeads(254) => TakesColours(4)
       /\ DecLeads(255) => TakesColours(5)
       /\ \A b \in 192..253 :
             (DecLeads(b) /\ produced + (b % 64) + 1 <= DecPixels) => TakesRun(b)]_vars

\* a RUN chunk of more pixels than the image has left has aborted the call
C32_RunBeyondImage ==
    /\ pc = "decoded"
    /\ dec_result = "Panic"
    /\ bytes[QOI_HEADER_SIZE + read + 1] \in 193..253

\* C33: in a 3-channel image a chunk with the leading byte 0xFF is taken as
\* RGB: R, G, B are the next three bytes, the fifth byte is skipped (5 bytes
\* consumed), the pixel is written to the output and to its slot of the
\* table, and decoding goes on with the byte after the skipped one.
C33_RgbaTagInRgb ==
    [][(DecLeads(255) /\ DecN = 3 /\ DecLeft >= 5) =>
          /\ dec_result' = "Running"
          /\ px' = SubSeq(bytes, QOI_HEADER_SIZE + read + 2, QOI_HEADER_SIZE + read + 4)
          /\ read' = read + 5
          /\ produced' = produced + 1
          /\ dec_index' = WithPixel(dec_index, px', px')
          /\ dec_output' = WriteAt(dec_output, produced * 3, px')]_vars

\* a 3-channel stream FF 40 00 00 80, 35: the second pixel was read from the
\* byte after the skipped 0x80 and is the pixel the first chunk left in slot
\* 0x35
C33_Witness ==
    /\ mode = "stream"
    /\ DecN = 3
    /\ produced = 2
    /\ read = 6
    /\ dec_result \in {"Running", "Ok"}
    /\ SubSeq(bytes, QOI_HEADER_SIZE + 1, QOI_HEADER_SIZE + 6) = <<255, 64, 0, 0, 128, 53>>
    /\ px = <<64, 0, 0>>
    /\ Take(dec_output, 6) = <<64, 0, 0, 64, 0, 0>>

\* the pixel before the first pixel is the initial previous pixel
PixelOrInit(j) == IF j = 0 THEN NewOpaque(EncN) ELSE PixelAt(pixels, EncN, j)

\* the length of the longest sequence of pixels, each equal to the pixel
\* before it, that ends at the last pixel of the image
TrailingRun ==
    LET n == NumPixels
        S == { k \in 0..n : \A j \in (n - k + 1)..n : PixelOrInit(j) = PixelOrInit(j - 1) }
    IN  CHOOSE k \in S : \A m \in S : m <= k

\* floor(k / 62) bytes 0xFD and, when r = k mod 62 > 0, the byte 0xC0 | (r - 1)
RunBytes(k) ==
    [i \in 1..(k \div 62) |-> 253]
        \o (IF k % 62 > 0 THEN << 192 + (k % 62) - 1 >> ELSE << >>)

\* C34: the pixels at the end of the image that are each equal to the pixel
\* before them, k >= 1 of them, the first pixel of the image being compared
\* with the initial previous pixel (0,0,0,255), are encoded as floor(k / 62)
\* bytes 0xFD followed, when r = k mod 62 > 0, by the byte 0xC0 | (r - 1):
\* these bytes end the body, right after the bytes of the pixels before.
C34_TrailingRun ==
    (mode = "roundtrip" /\ pc = "encoded" /\ enc_result = "Ok" /\ NumPixels > 0) =>
        LET k == TrailingRun
            before == EncoderAfter(NumPixels - k)
        IN  k >= 1 =>
              /\ before.consumed = NumPixels - k
              /\ before.run = 0
              /\ written = before.written + Len(RunBytes(k))
              /\ SubSeq(output, QOI_HEADER_SIZE + before.written + 1,
                        QOI_HEADER_SIZE + written) = RunBytes(k)

\* a row of more than 62 pixels, all the initial previous pixel: the body
\* is 0xFD and the RUN byte of the pixels after the 62nd
C34_Witness ==
    /\ mode = "roundtrip"
    /\ pc = "encoded"
    /\ enc_result = "Ok"
    /\ NumPixels > 62
    /\ TrailingRun = NumPixels
    /\ output[QOI_HEADER_SIZE + 1] = 253
    /\ output[QOI_HEADER_SIZE + 2] = 192 + (NumPixels - 62) - 1
    /\ written = 2

\* the bytes and the pixels of the chunk that starts with the byte b
TagBytes(b) ==
    CASE b = 255 -> 5 [] b = 254 -> 4 [] b \in 128..191 -> 2 [] OTHER -> 1

TagPixels(b) == IF b \in 192..253 THEN b - 192 + 1 ELSE 1

\* the pixels the chunks of the body bs stand for, from its byte i on
RECURSIVE BodyPixels(_, _)
BodyPixels(bs, i) ==
    IF i > Len(bs) THEN 0
    ELSE TagPixels(bs[i]) + BodyPixels(bs, i + TagBytes(bs[i]))

RECURSIVE RepeatsIndex(_, _)
RepeatsIndex(bs, i) ==
    IF i > Len(bs) THEN FALSE
    ELSE LET n == i + TagBytes(bs[i])
         IN  \/ bs[i] < 64 /\ n <= Len(bs) /\ bs[n] = bs[i]
             \/ RepeatsIndex(bs, n)

\* C36 as stated: the encoder never emits two consecutive INDEX chunks with
\* the same index value; a pixel equal to the pixel just written through
\* INDEX is expressed by a RUN chunk.
C36_NoRepeatedIndex ==
    (mode = "roundtrip" /\ pc = "encoded" /\ enc_result = "Ok") =>
        ~RepeatsIndex(CodeBody, 1)

\* the 4-channel image (0,0,0,0), (0,0,0,0), other: the first pixel hits the
\* all-zero slot 0, its repetition is a run of one, and the run is flushed as
\* INDEX 0 again
C36_RepeatedIndex ==
    /\ mode = "roundtrip"
    /\ pc = "encoded"
    /\ enc_result = "Ok"
    /\ EncN = 4
    /\ NumPixels = 3
    /\ Take(pixels, 8) = <<0, 0, 0, 0, 0, 0, 0, 0>>
    /\ Take(CodeBody, 2) = <<0, 0>>
    /\ Reference.body[2] = 192

\* C37: for every descriptor, pixel buffer and output buffer Qoi::encode
\* returns Ok or one of the two EncodeError values and does not abort: not in
\* the unreachable!() arm of encode_range, not in its assertion on the length
\* of the pixels, not in a write to the output.
C37_EncodeNeverAborts ==
    pc = "encoded" => enc_result \in {"Ok", "OutputIsTooSmall", "NotEnoughPixelData"}

\* C37 on the descriptors whose product width * height * channels fits a
\* usize, which is every descriptor of the images of the other specifications
\* too: encode returns Ok or an EncodeError.
C37_NoAbortWhenFits ==
    (pc = "encoded" /\ (mode = "wide_encode" =>
        ~decoded_size_usize(qoi.width, qoi.height, Channels(qoi.colors)).overflow)) =>
        enc_result \in {"Ok", "OutputIsTooSmall", "NotEnoughPixelData"}

\* encode on a descriptor of 2^31 x 2^31 pixels of 4 channels has aborted
\* after writing the header
C37_Overflow ==
    /\ mode = "wide_encode"
    /\ pc = "encoded"
    /\ qoi.width = <<128, 0, 0, 0>>
    /\ qoi.height = <<128, 0, 0, 0>>
    /\ Channels(qoi.colors) = 4
    /\ enc_result = "Panic"
    /\ Take(output, 4) = ToBeBytes(QOI_MAGIC)

\* the same call has returned Ok in a build that wraps the product to 0
C37_WrapsToOk ==
    /\ mode = "wide_encode"
    /\ pc = "encoded"
    /\ qoi.width = <<128, 0, 0, 0>>
    /\ qoi.height = <<128, 0, 0, 0>>
    /\ Channels(qoi.colors) = 4
    /\ enc_result = "Ok"
    /\ enc_size = QOI_HEADER_SIZE + QOI_PADDING

\* C38: both loops terminate. An iteration of the decode loop takes at least
\* one output pixel, whether it returns an error or not, and never more than
\* are left, so no more than width*height iterations run; an iteration that
\* does not fail takes at least one input byte; a decode_range that runs
\* comes to its end. An iteration of the encode loop takes exactly one input
\* pixel, never more than width*height are taken, and an encode_range that
\* runs comes to its end, after width*height iterations when it returns Ok.
\* Every step of the program is a step of a call in progress that changes
\* the position, which makes the fairness of LoopSpec that of Next.
C38_LoopsTerminate ==
    /\ [][CallRuns /\ LoopVars' # LoopVars]_vars
    /\ [][(pc = "decode_range" /\ produced < DecPixels) =>
            /\ pc' \in {"decode_range", "decoded"}
            /\ produced' >= produced + 1
            /\ produced' <= DecPixels
            /\ pc' = "decoded" => dec_result' \in {"Ok", "NotEnoughData", "Panic"}
            /\ dec_result' \in {"Running", "Ok"} => read' >= read + 1]_vars
    /\ [][(pc = "encode_range" /\ consumed < EncPixelCount(qoi)) =>
            /\ pc' \in {"encode_range", "encoded"}
            /\ consumed' = consumed + 1
            /\ consumed' <= EncPixelCount(qoi)]_vars
    /\ [](pc = "encoded" /\ enc_result = "Ok" => consumed = EncPixelCount(qoi))
    /\ (pc = "decode_range") ~> (pc = "decoded")
    /\ (pc = "encode_range") ~> (pc = "encoded")

\* both loops have run to the end of an image of three pixels: the encode loop
\* took three pixels and the decode loop, on a stream of fewer chunks than
\* pixels, produced three
C38_Witness ==
    /\ mode = "roundtrip"
    /\ pc = "decoded"
    /\ dec_result = "Ok"
    /\ consumed = 3
    /\ EncPixelCount(qoi) = 3
    /\ produced = 3
    /\ read < 3

\* the decode loop has stopped on a stream of any producer before the image
\* was full: the bytes ran out
C38_WitnessStops ==
    /\ mode = "stream"
    /\ pc = "decoded"
    /\ dec_result = "NotEnoughData"
    /\ produced > 1
    /\ produced <= DecPixels

============================================================================
